---- MODULE Spec2Model ----
(***************************************************************************)
(* A model of tebreak.py (adamewing/retrosplit): genome chunking,          *)
(* split-read clustering, consensus scoring, breakend mapping and pairing, *)
(* filtering, discordant-read collection, the steps of run_chunk, the      *)
(* merge of chunk results, the assembly and remapping of                   *)
(* postprocess_insertions, the adoption test of improve_consensus and the  *)
(* unmapped intervals of a breakend.                                       *)
(* Each part is a state machine of its own, with its own specification;    *)
(* the variables of the other parts stay at their idle values.             *)
(***************************************************************************)
EXTENDS Integers, Sequences, FiniteSets, TLC

VARIABLES
    \* Genome.chunk
    chrlen,      \* Genome.chrlen in visiting order: chrlen[c] is the length of chromosome c
    n,           \* requested number of chunks
    pad,         \* padding of every emitted interval
    chunklen,    \* int(bp/n)
    chunkleft,   \* how much genome still goes into the current chunk
    lenleft,     \* how much of the current chromosome is not yet emitted
    chromi,      \* index of the chromosome the for loop is at
    intervals,   \* intervals of the chunk under construction
    chunks,      \* finished chunks
    chunk_pc,    \* "idle", "for", "while", "done"
    \* build_insertions
    breakends,   \* the input list; a breakend's uuid is its index in this list
    maxdist,     \* max pairing distance
    pair_scores, \* (be1 uuid, be2 uuid, score), sorted by score, descending
    ps_i,        \* position of the greedy loop in pair_scores
    used,        \* uuids of the breakends that are in an insertion
    insertions,  \* the Insertion objects built so far
    se_i,        \* position of the single-end loop in breakends
    pair_pc,     \* "idle", "score", "match", "single", "done"
    \* build_sr_clusters
    splitreads,  \* the reads of the sorted input list that the loop has taken so far
    searchdist,  \* distance threshold
    clusters,    \* the SplitCluster objects built so far
    cluster_pc,  \* "idle", "loop", "done"
    \* resolve_duplicates
    ins_list,    \* the input list of summarised insertions (their INFO records)
    insdict,     \* key (chrom, breakpos) -> index in ins_list
    dd_n,        \* position of the loop in ins_list
    retained,    \* the indices of the returned records
    dedup_pc,    \* "idle", "loop", "done"
    \* Insertion.fetch_discordant_reads
    nbams,       \* number of BAM files
    max_fetch,   \* cap on the discordant reads per BAM
    bam_i,       \* index of the BAM the for loop is at
    bam_mapped,  \* qnames of the mate-mapped discordant reads of this BAM
    bam_unmapped, \* qnames of the mate-unmapped discordant reads of this BAM
    found,       \* (len(bam_mapped), len(bam_unmapped)) at the test of the cap
    all_mapped,  \* qname -> index of the BAM of its DiscoRead
    all_unmapped, \* qname -> index of the BAM of its DiscoRead
    unmapped_region, \* qnames of the unmapped primary reads of the second fetch
    mate_read,   \* qnames of bam_unmapped whose DiscoRead has its mate_read
    fetch_pc,    \* "idle", "fetch", "mates", "merge", "done"
    \* run_chunk, tebreak
    args_mask,   \* args.mask is not None
    args_map_tabix, \* args.map_tabix is not None
    worker,      \* worker[c]: the state of run_chunk on chunk c
    got,         \* the chunks whose result tebreak has added to insertions, in order
    main_pc,     \* tebreak: "idle", "collect", "done", "aborted"
    \* map_breakends
    tmp_fa,      \* the temporary FASTA file exists
    tmp_sam,     \* the temporary SAM file exists
    sam_orig,    \* the SAM file as bwa wrote it: [header, records]
    sam_header,  \* number of header lines of the SAM file now
    sam_records, \* the records of the SAM file now, by their number in sam_orig
    bad,         \* the records that pysam cannot parse
    mb_i,        \* the loop variable i of the parse loop, -1 while unbound
    mappings,    \* the records appended to be.mappings, in order
    truncations, \* number of rewrites of the SAM file
    map_pc,      \* "idle", "fasta", "bwa", "open", "parse", "done", "raised", "nameerror"
    \* filter_insertions
    candidates,  \* the input list: [rgs, other] per insertion
    exclude_readgroup, \* filters['exclude_readgroup'], {} when not configured
    filtered,    \* indices of the insertions appended to filtered
    fi_i,        \* position of the loop in candidates
    filter_pc,   \* "idle", "loop", "done", "keyerror"
    \* SplitCluster.consensus
    uniq,        \* len(uniq_seqs)
    cons_k,      \* number of sequences of uniq_seqs[1:] the loop has taken
    scores,      \* the scores of the accepted steps, in thousandths
    cons_score,  \* the returned score as a fraction [num, den] of thousandths
    cons_pc,     \* "idle", "start", "loop", "done"
    \* postprocess_insertions
    post_ins,    \* the input list: [be1, be1_alt, be1_improved_cons] per insertion
    heap,        \* the BreakEnd objects: heap[b] = [consensus, mappings]
    post_i,      \* position of the current loop in post_ins
    attempts,    \* attempts[k]: runs of minia for insertion k
    asm_ok,      \* the insertions whose last run of minia wrote contigs
    reported,    \* the insertions with the message 'Assembly failed!'
    noprox,      \* the breakends whose remapped consensus has no proximal mapping
    post_pc,     \* "idle", "loop", "resolve", "done"
    \* Insertion.improve_consensus
    imp_be1,     \* be1: length of its consensus and its LAST result against the contigs
    imp_be2,     \* the same for be2
    be1_improved_cons,
    be2_improved_cons,
    imp_pc,      \* "idle", "be1", "be2", "done"
    \* BreakEnd.unmapped_subread
    us_consensus, \* self.consensus, a sequence of bases
    us_aligned,  \* the mappings: the part [start, end) of the consensus each one aligns
    us_p,        \* p of the loop over the consensus
    us_interval,    \* the positions of the open run
    us_subseq,      \* the bases of the open run
    us_intervals, \* intervals
    us_subseqs,  \* subseqs
    us_pc        \* "idle", "loop", "done"

chunkvars == <<chrlen, n, pad, chunklen, chunkleft, lenleft, chromi, intervals, chunks, chunk_pc>>

pairvars == <<breakends, maxdist, pair_scores, ps_i, used, insertions, se_i, pair_pc>>

clustervars == <<splitreads, searchdist, clusters, cluster_pc>>

dedupvars == <<ins_list, insdict, dd_n, retained, dedup_pc>>

fetchvars == <<nbams, max_fetch, bam_i, bam_mapped, bam_unmapped, found, all_mapped, all_unmapped,
              unmapped_region, mate_read, fetch_pc>>

runvars == <<args_mask, args_map_tabix, worker, got, main_pc>>

mapvars == <<tmp_fa, tmp_sam, sam_orig, sam_header, sam_records, bad, mb_i, mappings, truncations, map_pc>>

filtervars == <<candidates, exclude_readgroup, filtered, fi_i, filter_pc>>

consvars == <<uniq, cons_k, scores, cons_score, cons_pc>>

postvars == <<post_ins, heap, post_i, attempts, asm_ok, reported, noprox, post_pc>>

impvars == <<imp_be1, imp_be2, be1_improved_cons, be2_improved_cons, imp_pc>>

usvars == <<us_consensus, us_aligned, us_p, us_interval, us_subseq, us_intervals, us_subseqs, us_pc>>

vars == <<chunkvars, pairvars, clustervars, dedupvars, fetchvars, runvars, mapvars, filtervars, consvars, postvars, impvars, usvars>>

notchunk == <<pairvars, clustervars, dedupvars, fetchvars, runvars, mapvars, filtervars, consvars, postvars, impvars, usvars>>

notpair == <<chunkvars, clustervars, dedupvars, fetchvars, runvars, mapvars, filtervars, consvars, postvars, impvars, usvars>>

notcluster == <<chunkvars, pairvars, dedupvars, fetchvars, runvars, mapvars, filtervars, consvars, postvars, impvars, usvars>>

notdedup == <<chunkvars, pairvars, clustervars, fetchvars, runvars, mapvars, filtervars, consvars, postvars, impvars, usvars>>

notfetch == <<chunkvars, pairvars, clustervars, dedupvars, runvars, mapvars, filtervars, consvars, postvars, impvars, usvars>>

notrun == <<chunkvars, pairvars, clustervars, dedupvars, fetchvars, mapvars, filtervars, consvars, postvars, impvars, usvars>>

notmap == <<chunkvars, pairvars, clustervars, dedupvars, fetchvars, runvars, filtervars, consvars, postvars, impvars, usvars>>

notfilter == <<chunkvars, pairvars, clustervars, dedupvars, fetchvars, runvars, mapvars, consvars, postvars, impvars, usvars>>

notcons == <<chunkvars, pairvars, clustervars, dedupvars, fetchvars, runvars, mapvars, filtervars, postvars, impvars, usvars>>

notpost == <<chunkvars, pairvars, clustervars, dedupvars, fetchvars, runvars, mapvars, filtervars, consvars, impvars, usvars>>

notimp == <<chunkvars, pairvars, clustervars, dedupvars, fetchvars, runvars, mapvars, filtervars, consvars, postvars, usvars>>

notus == <<chunkvars, pairvars, clustervars, dedupvars, fetchvars, runvars, mapvars, filtervars, consvars, postvars, impvars>>

(***************************************************************************)
(* Bounds of the model.                                                    *)
(***************************************************************************)
MaxChroms == 3
MaxChromLen == 4
MaxN == 4
MaxPad == 1
MaxChunks == 6
MaxBE == 3
MaxPos == 3
MaxDist == 2
MaxSize == 2
ProxLen == 2
MaxClChroms == 2
MaxRefPos == 2
MaxReadLen == 3
MaxReads == 4
MaxSearchDist == 2
MaxDdChroms == 2
MaxDdPos == 1
MaxSr == 2
MaxDr == 1
MaxIns == 3
MaxBams == 2
MaxQNames == 4
MaxMaxFetch == 3
NumRunChunks == 2
MaxSamHeader == 3
MaxSamRecords == 5
MaxCandidates == 3
MaxReadGroups == 2
MaxUniq == 4
MaxPostIns == 3
MaxOutReads == 1
MaxConsLen == 8
MaxCtgDiff == 1
MaxUsLen == 4
MaxUsMappings == 2

(***************************************************************************)
(* Helpers.                                                                *)
(***************************************************************************)
Abs(x) == IF x < 0 THEN -x ELSE x

Min2(a, b) == IF a < b THEN a ELSE b

Max2(a, b) == IF a > b THEN a ELSE b

RECURSIVE SumSeq(_)
SumSeq(s) == IF s = <<>> THEN 0 ELSE Head(s) + SumSeq(Tail(s))

RECURSIVE Flatten(_)
Flatten(ss) == IF ss = <<>> THEN <<>> ELSE Head(ss) \o Flatten(Tail(ss))

SeqsUpTo(S, k) == UNION {[1..m -> S] : m \in 0..k}

(***************************************************************************)
(* Genome                                                                  *)
(***************************************************************************)
\* Genome.bp: the total length of the chromosomes
GenomeBp(lens) == SumSeq(lens)

\* Genome.addpad: pad an interval, clamped to [0, chromosome length]
addpad(lens, interval, p) ==
    LET chrom == interval[1]
        start == interval[2] - p
        end   == interval[3] + p
    IN  <<chrom,
          IF start < 0 THEN 0 ELSE start,
          IF end > lens[chrom] THEN lens[chrom] ELSE end>>

\* chunklen = int(self.bp/n)
ChunkLenOf(lens, k) == GenomeBp(lens) \div k

ChunkIdle ==
    /\ chrlen = <<>>
    /\ n = 0
    /\ pad = 0
    /\ chunklen = 0
    /\ chunkleft = 0
    /\ lenleft = 0
    /\ chromi = 0
    /\ intervals = <<>>
    /\ chunks = <<>>
    /\ chunk_pc = "idle"

\* the state on entry of the for loop of Genome.chunk
ChunkInit ==
    /\ chrlen \in SeqsUpTo(1..MaxChromLen, MaxChroms) \ {<<>>}
    /\ n \in 1..MaxN
    /\ pad \in 0..MaxPad
    /\ chunklen = ChunkLenOf(chrlen, n)
    /\ chunkleft = chunklen
    /\ lenleft = 0
    /\ chromi = 1
    /\ intervals = <<>>
    /\ chunks = <<>>
    /\ chunk_pc = "for"

\* for chrom in chromlist: the chromosome fits into what is left of the chunk
ChunkWholeChrom ==
    /\ chunk_pc = "for"
    /\ chromi <= Len(chrlen)
    /\ LET length == chrlen[chromi]
           iv     == addpad(chrlen, <<chromi, 0, length>>, pad)
       IN  /\ length <= chunkleft
           /\ IF chunkleft - length = 0
              THEN /\ chunkleft' = chunklen
                   /\ chunks' = Append(chunks, Append(intervals, iv))
                   /\ intervals' = <<>>
              ELSE /\ chunkleft' = chunkleft - length
                   /\ intervals' = Append(intervals, iv)
                   /\ UNCHANGED chunks
    /\ lenleft' = 0
    /\ chromi' = chromi + 1
    /\ UNCHANGED <<chrlen, n, pad, chunklen, chunk_pc>>
    /\ UNCHANGED notchunk

\* for chrom in chromlist: the chromosome is longer than what is left: enter the while loop
ChunkEnterSplit ==
    /\ chunk_pc = "for"
    /\ chromi <= Len(chrlen)
    /\ chrlen[chromi] > chunkleft
    /\ lenleft' = chrlen[chromi]
    /\ chunk_pc' = "while"
    /\ UNCHANGED <<chrlen, n, pad, chunklen, chunkleft, chromi, intervals, chunks>>
    /\ UNCHANGED notchunk

\* while lenleft > 0: if lenleft >= chunkleft: the piece closes the chunk
ChunkSplitFull ==
    /\ chunk_pc = "while"
    /\ lenleft > 0
    /\ lenleft >= chunkleft
    /\ chunklen > 0 \/ Len(chunks) < MaxChunks
    /\ LET length == chrlen[chromi]
           iv     == addpad(chrlen, <<chromi, length - lenleft, length - lenleft + chunkleft>>, pad)
       IN  chunks' = Append(chunks, Append(intervals, iv))
    /\ lenleft' = lenleft - chunkleft
    /\ chunkleft' = chunklen
    /\ intervals' = <<>>
    /\ UNCHANGED <<chrlen, n, pad, chunklen, chromi, chunk_pc>>
    /\ UNCHANGED notchunk

\* while lenleft > 0: else: the rest of the chromosome goes into the open chunk
ChunkSplitRest ==
    /\ chunk_pc = "while"
    /\ lenleft > 0
    /\ lenleft < chunkleft
    /\ LET length == chrlen[chromi]
           iv     == addpad(chrlen, <<chromi, length - lenleft, length>>, pad)
       IN  intervals' = Append(intervals, iv)
    /\ chunkleft' = chunkleft - lenleft
    /\ lenleft' = 0
    /\ UNCHANGED <<chrlen, n, pad, chunklen, chromi, chunks, chunk_pc>>
    /\ UNCHANGED notchunk

\* the while loop ends: next chromosome
ChunkNextChrom ==
    /\ chunk_pc = "while"
    /\ lenleft = 0
    /\ chromi' = chromi + 1
    /\ chunk_pc' = "for"
    /\ UNCHANGED <<chrlen, n, pad, chunklen, chunkleft, lenleft, intervals, chunks>>
    /\ UNCHANGED notchunk

\* the for loop ends: return chunks (flatten=False) or their concatenation
ChunkReturn ==
    /\ chunk_pc = "for"
    /\ chromi > Len(chrlen)
    /\ chunk_pc' = "done"
    /\ UNCHANGED <<chrlen, n, pad, chunklen, chunkleft, lenleft, chromi, intervals, chunks>>
    /\ UNCHANGED notchunk

\* the value of chunk(n, flatten=True)
ChunkFlat == Flatten(chunks)

ChunkNext ==
    \/ ChunkWholeChrom
    \/ ChunkEnterSplit
    \/ ChunkSplitFull
    \/ ChunkSplitRest
    \/ ChunkNextChrom
    \/ ChunkReturn

(***************************************************************************)
(* BreakEnd, score_breakend_pair, build_insertions                         *)
(*                                                                         *)
(* A breakend is a record [breakpos, direction, mappings, size]: mappings  *)
(* is the list of its sub-alignments, each the pair (first, last) of its   *)
(* reference positions, and size is len(be), the size of its cluster.      *)
(* Its uuid is its index in the input list.  Insertion.be2 = 0 is None.    *)
(***************************************************************************)
\* the sub-alignments a breakend at pos can have after map_breakends: none,
\* one that holds the breakpoint (reaching right of a left clip, left of a
\* right clip), or one that does not hold it
MappingChoices(pos, dir) ==
    { <<>>,
      IF dir = "left" THEN << <<pos, pos + ProxLen>> >> ELSE << <<pos - ProxLen, pos>> >>,
      << <<pos + 1, pos + 1 + ProxLen>> >> }

BreakEndChoices ==
    UNION { UNION { { [breakpos |-> pos, direction |-> dir, mappings |-> m, size |-> sz] :
                        m \in MappingChoices(pos, dir), sz \in 1..MaxSize } :
                    dir \in {"left", "right"} } :
            pos \in 0..MaxPos }

\* build_breakends makes at most one breakend per breakpoint and direction
DistinctBreakEnds(bes) ==
    \A i, j \in DOMAIN bes :
        i # j => <<bes[i].breakpos, bes[i].direction>> # <<bes[j].breakpos, bes[j].direction>>

\* BreakEnd.proximal_subread: the mappings that hold the breakpoint
proximal_subread(be) ==
    SelectSeq(be.mappings, LAMBDA read : read[1] <= be.breakpos /\ be.breakpos <= read[2])

\* ref_dist: distance between two alignments on the reference, negative when they overlap
ref_dist(read1, read2) == Max2(read1[1], read2[1]) - Min2(read1[2], read2[2])

\* ss.gamma(2.5, scale=3.0).pdf(overlap) * overlap**2, in thousandths, rounded down
WeightedOverlap(overlap) ==
    CASE overlap = 0 -> 0
      [] overlap = 1 -> 34
      [] overlap = 2 -> 280
      [] overlap = 3 -> 830
      [] overlap = 4 -> 1628
      [] overlap = 5 -> 2547
      [] overlap = 6 -> 3455
      [] overlap = 7 -> 4246

\* score_breakend_pair, in thousandths: <<score>>, or <<>> for None
score_breakend_pair(be1, be2) ==
    LET prox1 == proximal_subread(be1)
        prox2 == proximal_subread(be2)
    IN  IF prox1 # <<>> /\ prox2 # <<>>
        THEN LET overlap == Abs(Min2(0, ref_dist(prox1[1], prox2[1])))
                 distance_penalty ==
                     IF overlap > 0
                     THEN Abs(Abs(be1.breakpos - be2.breakpos) - overlap)
                     ELSE Abs(be1.breakpos - be2.breakpos)
             IN  << WeightedOverlap(overlap) - 1000 * distance_penalty
                    + 1000 * be1.size + 1000 * be2.size >>
        ELSE <<>>

\* Intersecter.find(be1.breakpos, be1.breakpos+1) returns the interval
\* (be2.breakpos-maxdist, be2.breakpos+maxdist): its end is after the start of
\* the query and its start before the end of the query
ItreeOverlapsStrict(be1, be2, d) ==
    /\ be2.breakpos + d > be1.breakpos
    /\ be2.breakpos - d < be1.breakpos

ItreeOverlaps(be1, be2, d) ==
    /\ be2.breakpos + d > be1.breakpos
    /\ be2.breakpos - d < be1.breakpos + 1

\* pair_name in checked_pairs when be1 = bes[i] meets bes[j]: the pair was seen
\* in an earlier round of the outer loop, when bes[j] was be1 and found bes[i]
CheckedBefore(bes, d, i, j) == j < i /\ ItreeOverlaps(bes[j], bes[i], d)

\* the test that appends (be1, be2, score) to pair_scores
IsCandidateAnyDistance(bes, d, i, j) ==
    /\ i # j
    /\ bes[i].direction # bes[j].direction
    /\ j > i

IsCandidate(bes, d, i, j) ==
    /\ ItreeOverlaps(bes[i], bes[j], d)
    /\ i # j
    /\ bes[i].direction # bes[j].direction
    /\ ~CheckedBefore(bes, d, i, j)
    /\ Abs(bes[i].breakpos - bes[j].breakpos) <= d

\* the elements of S, by breakpos ascending: the order of Intersecter.find
RECURSIVE ByStart(_, _)
ByStart(bes, S) ==
    IF S = {} THEN <<>>
    ELSE LET j == CHOOSE x \in S : \A y \in S :
                      \/ bes[x].breakpos < bes[y].breakpos
                      \/ (bes[x].breakpos = bes[y].breakpos /\ x <= y)
         IN  <<j>> \o ByStart(bes, S \ {j})

\* what the inner loop appends for be1 = bes[i]
PairsOf(bes, d, i) ==
    LET js == ByStart(bes, {j \in DOMAIN bes : IsCandidate(bes, d, i, j)})
    IN  [k \in DOMAIN js |-> <<i, js[k], score_breakend_pair(bes[i], bes[js[k]])>>]

\* pair_scores as the two loops leave it
RECURSIVE AllPairsFrom(_, _, _)
AllPairsFrom(bes, d, i) ==
    IF i > Len(bes) THEN <<>> ELSE PairsOf(bes, d, i) \o AllPairsFrom(bes, d, i + 1)

\* pair_scores.sort(key=itemgetter(2), reverse=True): stable
RECURSIVE InsertByScore(_, _)
InsertByScore(sorted, p) ==
    IF sorted = <<>> THEN <<p>>
    ELSE IF Head(sorted)[3] >= p[3]
         THEN <<Head(sorted)>> \o InsertByScore(Tail(sorted), p)
         ELSE <<p>> \o sorted

RECURSIVE SortByScore(_)
SortByScore(ps) ==
    IF ps = <<>> THEN <<>>
    ELSE InsertByScore(SortByScore(SubSeq(ps, 1, Len(ps) - 1)), ps[Len(ps)])

\* pair_scores after the None scores are dropped and the list is sorted
ScoredPairs(bes, d) ==
    LET scored == SelectSeq(AllPairsFrom(bes, d, 1), LAMBDA p : p[3] # <<>>)
    IN  SortByScore([k \in DOMAIN scored |-> <<scored[k][1], scored[k][2], scored[k][3][1]>>])

\* Insertion.__init__: the breakends are kept in position order
Insertion(bes, b1, b2) ==
    IF b2 # 0 /\ bes[b1].breakpos > bes[b2].breakpos
    THEN [be1 |-> b2, be2 |-> b1]
    ELSE [be1 |-> b1, be2 |-> b2]

\* Insertion.paired
paired(ins) == ins.be2 # 0

\* if be1_uuid not in used and be2_uuid not in used
BothUnusedFirstOnly(p, u) == p[1] \notin u

BothUnusedSecondUsed(p, u) == p[1] \notin u /\ p[2] \in u

BothUnused(p, u) == p[1] \notin u /\ p[2] \notin u

\* if be.uuid not in used
NotUsedAlways(i, u) == TRUE

NotUsed(i, u) == i \notin u

PairIdle ==
    /\ breakends = <<>>
    /\ maxdist = 0
    /\ pair_scores = <<>>
    /\ ps_i = 0
    /\ used = {}
    /\ insertions = <<>>
    /\ se_i = 0
    /\ pair_pc = "idle"

\* the state on entry of build_insertions
PairInit ==
    /\ breakends \in {bes \in SeqsUpTo(BreakEndChoices, MaxBE) : bes # <<>> /\ DistinctBreakEnds(bes)}
    /\ maxdist \in 1..MaxDist
    /\ pair_scores = <<>>
    /\ ps_i = 0
    /\ used = {}
    /\ insertions = <<>>
    /\ se_i = 0
    /\ pair_pc = "score"

\* the loops that score the candidate pairs, the filter and the sort
PairScore ==
    /\ pair_pc = "score"
    /\ pair_scores' = ScoredPairs(breakends, maxdist)
    /\ ps_i' = 1
    /\ pair_pc' = "match"
    /\ UNCHANGED <<breakends, maxdist, used, insertions, se_i>>
    /\ UNCHANGED notpair

\* for be1_uuid, be2_uuid, score in pair_scores: both unused: a two-sided insertion
PairAccept ==
    /\ pair_pc = "match"
    /\ ps_i <= Len(pair_scores)
    /\ BothUnused(pair_scores[ps_i], used)
    /\ insertions' = Append(insertions, Insertion(breakends, pair_scores[ps_i][1], pair_scores[ps_i][2]))
    /\ used' = used \cup {pair_scores[ps_i][1], pair_scores[ps_i][2]}
    /\ ps_i' = ps_i + 1
    /\ UNCHANGED <<breakends, maxdist, pair_scores, se_i, pair_pc>>
    /\ UNCHANGED notpair

\* for be1_uuid, be2_uuid, score in pair_scores: one of them is used already
PairSkip ==
    /\ pair_pc = "match"
    /\ ps_i <= Len(pair_scores)
    /\ ~BothUnused(pair_scores[ps_i], used)
    /\ ps_i' = ps_i + 1
    /\ UNCHANGED <<breakends, maxdist, pair_scores, used, insertions, se_i, pair_pc>>
    /\ UNCHANGED notpair

\* the greedy loop ends
PairMatched ==
    /\ pair_pc = "match"
    /\ ps_i > Len(pair_scores)
    /\ se_i' = 1
    /\ pair_pc' = "single"
    /\ UNCHANGED <<breakends, maxdist, pair_scores, ps_i, used, insertions>>
    /\ UNCHANGED notpair

\* for be in breakends: an unused breakend becomes a single-sided insertion
SingleEnd ==
    /\ pair_pc = "single"
    /\ se_i <= Len(breakends)
    /\ IF NotUsed(se_i, used)
       THEN /\ insertions' = Append(insertions, Insertion(breakends, se_i, 0))
            /\ used' = used \cup {se_i}
       ELSE UNCHANGED <<insertions, used>>
    /\ se_i' = se_i + 1
    /\ UNCHANGED <<breakends, maxdist, pair_scores, ps_i, pair_pc>>
    /\ UNCHANGED notpair

\* return insertions
PairReturn ==
    /\ pair_pc = "single"
    /\ se_i > Len(breakends)
    /\ pair_pc' = "done"
    /\ UNCHANGED <<breakends, maxdist, pair_scores, ps_i, used, insertions, se_i>>
    /\ UNCHANGED notpair

PairNext ==
    \/ PairScore
    \/ PairAccept
    \/ PairSkip
    \/ PairMatched
    \/ SingleEnd
    \/ PairReturn

(***************************************************************************)
(* SplitRead, ReadCluster, SplitCluster, build_sr_clusters                 *)
(*                                                                         *)
(* A split read is a record [chrom, first, last, breakleft, breakpos]: its *)
(* aligned reference positions are first..last.  A cluster is a record     *)
(* [chrom, reads, start, end, median].                                     *)
(***************************************************************************)
\* SplitRead.__init__: the breakpoint is the last aligned position when the
\* clip is on the right, the first one when it is on the left
SplitRead(chrom, first, last, breakleft) ==
    [chrom |-> chrom, first |-> first, last |-> last, breakleft |-> breakleft,
     breakpos |-> IF breakleft THEN first ELSE last]

SplitReadChoices ==
    { SplitRead(c, f, f + len - 1, bl) :
        c \in 1..MaxClChroms, f \in 0..MaxRefPos, len \in 1..MaxReadLen, bl \in BOOLEAN }

\* SplitRead.__gt__
SplitReadGt(a, b) ==
    IF a.chrom = b.chrom THEN a.breakpos > b.breakpos ELSE a.chrom > b.chrom

\* the list is as sr.sort() leaves it
IsSortedReads(rs) == \A i \in 1..(Len(rs) - 1) : ~SplitReadGt(rs[i], rs[i + 1])

\* self.reads.sort(), after one read was appended to a sorted list: stable
RECURSIVE InsertRead(_, _)
InsertRead(rs, r) ==
    IF rs = <<>> THEN <<r>>
    ELSE IF SplitReadGt(rs[Len(rs)], r)
         THEN Append(InsertRead(SubSeq(rs, 1, Len(rs) - 1), r), rs[Len(rs)])
         ELSE Append(rs, r)

\* [pos for r in self.reads for pos in r.read.positions], as a bag: position -> count
PositionCount(rs, pos) == Cardinality({i \in DOMAIN rs : rs[i].first <= pos /\ pos <= rs[i].last})

AllPositions(rs) == {pos \in 0..(MaxRefPos + MaxReadLen) : PositionCount(rs, pos) > 0}

NumPositions(rs) == SumSeq([i \in DOMAIN rs |-> rs[i].last - rs[i].first + 1])

\* the k-th smallest (k = 1, 2, ...) of the positions of the reads
KthPosition(rs, k) ==
    CHOOSE pos \in AllPositions(rs) :
        LET below == SumSeq([i \in DOMAIN rs |->
                         IF rs[i].first < pos
                         THEN Min2(rs[i].last, pos - 1) - rs[i].first + 1 ELSE 0])
        IN  below < k /\ k <= below + PositionCount(rs, pos)

\* int(np.median(positions))
MedianPosition(rs) ==
    LET cnt == NumPositions(rs)
    IN  IF cnt % 2 = 1
        THEN KthPosition(rs, (cnt + 1) \div 2)
        ELSE (KthPosition(rs, cnt \div 2) + KthPosition(rs, cnt \div 2 + 1)) \div 2

MaxPosition(rs) == CHOOSE pos \in AllPositions(rs) : \A q \in AllPositions(rs) : q <= pos

MinPosition(rs) == CHOOSE pos \in AllPositions(rs) : \A q \in AllPositions(rs) : pos <= q

\* ReadCluster.add_read on a cluster of one chromosome
add_read(cl, r) ==
    LET rs == InsertRead(cl.reads, r)
    IN  [chrom  |-> IF cl.chrom = 0 THEN r.chrom ELSE cl.chrom,
         reads  |-> rs,
         start  |-> MaxPosition(rs),
         end    |-> MinPosition(rs),
         median |-> MedianPosition(rs)]

\* ReadCluster.__init__ with no first read
EmptyCluster == [chrom |-> 0, reads |-> <<>>, start |-> 0, end |-> 0, median |-> 0]

\* SplitCluster(sr): SplitCluster has no __init__ of its own, so this is
\* ReadCluster.__init__, which adds the first read with add_read
SplitCluster(sr) == add_read(EmptyCluster, sr)

\* SplitCluster.add_splitread
add_splitread(cl, sr) ==
    LET rs == InsertRead(cl.reads, sr)
    IN  [chrom  |-> IF cl.chrom = 0 THEN sr.chrom ELSE cl.chrom,
         reads  |-> rs,
         start  |-> rs[1].breakpos,
         end    |-> rs[Len(rs)].breakpos,
         median |-> rs[(Len(rs) \div 2) + 1].breakpos]

\* abs(clusters[-1].median - sr.breakpos) > searchdist
TooFarOrEqual(median, breakpos, sd) == Abs(median - breakpos) >= sd

TooFar(median, breakpos, sd) == Abs(median - breakpos) > sd

\* the tests of the loop of build_sr_clusters that start a new cluster
StartsNewCluster(cls, sr, sd) ==
    IF Len(cls) = 0 THEN TRUE
    ELSE IF cls[Len(cls)].chrom # sr.chrom THEN TRUE
    ELSE TooFar(cls[Len(cls)].median, sr.breakpos, sd)

ClusterIdle ==
    /\ splitreads = <<>>
    /\ searchdist = 0
    /\ clusters = <<>>
    /\ cluster_pc = "idle"

\* the state on entry of build_sr_clusters
ClusterInit ==
    /\ splitreads = <<>>
    /\ searchdist \in 1..MaxSearchDist
    /\ clusters = <<>>
    /\ cluster_pc = "loop"

\* sr can be the next read of a list that sr.sort() has sorted
NextInSorted(rs, sr) ==
    /\ Len(rs) < MaxReads
    /\ IsSortedReads(Append(rs, sr))

\* for sr in splitreads: the first read, another chromosome, or too far from
\* the median of the last cluster: a new cluster
ClusterStart ==
    /\ cluster_pc = "loop"
    /\ \E sr \in SplitReadChoices :
          /\ NextInSorted(splitreads, sr)
          /\ StartsNewCluster(clusters, sr, searchdist)
          /\ clusters' = Append(clusters, SplitCluster(sr))
          /\ splitreads' = Append(splitreads, sr)
    /\ UNCHANGED <<searchdist, cluster_pc>>
    /\ UNCHANGED notcluster

\* for sr in splitreads: else: the read joins the last cluster
ClusterAdd ==
    /\ cluster_pc = "loop"
    /\ \E sr \in SplitReadChoices :
          /\ NextInSorted(splitreads, sr)
          /\ ~StartsNewCluster(clusters, sr, searchdist)
          /\ clusters' = [clusters EXCEPT ![Len(clusters)] = add_splitread(@, sr)]
          /\ splitreads' = Append(splitreads, sr)
    /\ UNCHANGED <<searchdist, cluster_pc>>
    /\ UNCHANGED notcluster

\* the list is exhausted: return clusters
ClusterReturn ==
    /\ cluster_pc = "loop"
    /\ cluster_pc' = "done"
    /\ UNCHANGED <<splitreads, searchdist, clusters>>
    /\ UNCHANGED notcluster

ClusterNext ==
    \/ ClusterStart
    \/ ClusterAdd
    \/ ClusterReturn

(***************************************************************************)
(* resolve_duplicates, prefer_insertion                                    *)
(*                                                                         *)
(* A summarised insertion is its INFO record [chrom, be1_breakpos,         *)
(* be2_breakpos, be1_sr_count, be2_sr_count, dr_count].  compile_info      *)
(* sets be2_breakpos = be1_breakpos and be2_sr_count = 0 for a             *)
(* single-sided insertion; a two-sided one has be1_breakpos <=             *)
(* be2_breakpos and split reads on both sides.                             *)
(***************************************************************************)
InfoChoices ==
    { r \in [chrom : 1..MaxDdChroms, be1_breakpos : 0..MaxDdPos, be2_breakpos : 0..MaxDdPos,
             be1_sr_count : 1..MaxSr, be2_sr_count : 0..MaxSr, dr_count : 0..MaxDr] :
        /\ r.be1_breakpos <= r.be2_breakpos
        /\ r.be1_breakpos < r.be2_breakpos => r.be2_sr_count > 0 }

\* the keys be1 and be2 of resolve_duplicates: chrom + ':' + str(breakpos)
Be1Key(ins) == <<ins.chrom, ins.be1_breakpos>>

Be2Key(ins) == <<ins.chrom, ins.be2_breakpos>>

\* prefer_insertion: TRUE when ins1 has more evidence than ins2
prefer_insertion(ins1, ins2) ==
    IF ins1.be1_breakpos # ins1.be2_breakpos /\ ins2.be1_breakpos = ins2.be2_breakpos
    THEN TRUE
    ELSE IF ins1.be1_sr_count + ins1.be2_sr_count > ins2.be1_sr_count + ins2.be2_sr_count
    THEN TRUE
    ELSE ins1.dr_count > ins2.dr_count

\* insdict[be1] = n; insdict[be2] = n
SetKeys(d, ins, k) ==
    [key \in DOMAIN d \cup {Be1Key(ins), Be2Key(ins)} |->
        IF key \in {Be1Key(ins), Be2Key(ins)} THEN k ELSE d[key]]

\* the two assignments when be1 is a new key
NewKeys(d, ins, k) == SetKeys(d, ins, k)

\* the two assignments when ins is preferred to the record that holds be1
ReplaceKeysBe1Only(d, ins, k) == [d EXCEPT ![Be1Key(ins)] = k]

ReplaceKeys(d, ins, k) == SetKeys(d, ins, k)

\* list(set(insdict.values()))
DictValues(d) == {d[key] : key \in DOMAIN d}

DedupIdle ==
    /\ ins_list = <<>>
    /\ insdict = <<>>
    /\ dd_n = 0
    /\ retained = {}
    /\ dedup_pc = "idle"

\* the state on entry of resolve_duplicates
DedupInit ==
    /\ ins_list \in SeqsUpTo(InfoChoices, MaxIns)
    /\ insdict = <<>>
    /\ dd_n = 1
    /\ retained = {}
    /\ dedup_pc = "loop"

\* for n, ins in enumerate(insertions): be1 not in insdict
DedupNewKey ==
    /\ dedup_pc = "loop"
    /\ dd_n <= Len(ins_list)
    /\ Be1Key(ins_list[dd_n]) \notin DOMAIN insdict
    /\ insdict' = NewKeys(insdict, ins_list[dd_n], dd_n)
    /\ dd_n' = dd_n + 1
    /\ UNCHANGED <<ins_list, retained, dedup_pc>>
    /\ UNCHANGED notdedup

\* for n, ins in enumerate(insertions): be1 in insdict and ins is preferred
DedupReplace ==
    /\ dedup_pc = "loop"
    /\ dd_n <= Len(ins_list)
    /\ Be1Key(ins_list[dd_n]) \in DOMAIN insdict
    /\ prefer_insertion(ins_list[dd_n], ins_list[insdict[Be1Key(ins_list[dd_n])]])
    /\ insdict' = ReplaceKeys(insdict, ins_list[dd_n], dd_n)
    /\ dd_n' = dd_n + 1
    /\ UNCHANGED <<ins_list, retained, dedup_pc>>
    /\ UNCHANGED notdedup

\* for n, ins in enumerate(insertions): be1 in insdict and ins is not preferred
DedupKeep ==
    /\ dedup_pc = "loop"
    /\ dd_n <= Len(ins_list)
    /\ Be1Key(ins_list[dd_n]) \in DOMAIN insdict
    /\ ~prefer_insertion(ins_list[dd_n], ins_list[insdict[Be1Key(ins_list[dd_n])]])
    /\ dd_n' = dd_n + 1
    /\ UNCHANGED <<ins_list, insdict, retained, dedup_pc>>
    /\ UNCHANGED notdedup

\* return [insertions[n] for n in list(set(insdict.values()))]
DedupReturn ==
    /\ dedup_pc = "loop"
    /\ dd_n > Len(ins_list)
    /\ retained' = DictValues(insdict)
    /\ dedup_pc' = "done"
    /\ UNCHANGED <<ins_list, insdict, dd_n>>
    /\ UNCHANGED notdedup

DedupNext ==
    \/ DedupNewKey
    \/ DedupReplace
    \/ DedupKeep
    \/ DedupReturn

\* insdict after the loop of resolve_duplicates has taken the first k records of list
RECURSIVE DictAfter(_, _)
DictAfter(list, k) ==
    IF k = 0 THEN <<>>
    ELSE LET d   == DictAfter(list, k - 1)
             rec == list[k]
         IN  IF Be1Key(rec) \notin DOMAIN d THEN NewKeys(d, rec, k)
             ELSE IF prefer_insertion(rec, list[d[Be1Key(rec)]]) THEN ReplaceKeys(d, rec, k)
             ELSE d

\* the records that resolve_duplicates(list) returns
resolve_duplicates(list) == {list[i] : i \in DictValues(DictAfter(list, Len(list)))}

\* the orders in which the chunk results can reach the merge
Permuted(list) == {[i \in DOMAIN list |-> list[p[i]]] : p \in Permutations(DOMAIN list)}

(***************************************************************************)
(* Insertion.fetch_discordant_reads, subsample_dict                        *)
(*                                                                         *)
(* The two buckets of a BAM are dictionaries keyed by read name; the model *)
(* keeps their key sets.  all_mapped and all_unmapped map a read name to   *)
(* the BAM its DiscoRead came from.                                        *)
(***************************************************************************)
QNames == 1..MaxQNames

\* int((len(bucket) / float(total)) * max_fetch)
SubCount(bucket, total, cap) == (bucket * cap) \div total

\* the dictionaries subsample_dict(orig, n) can return: n of the keys of orig
subsample_dict(orig, k) ==
    IF k = 0 THEN {{}} ELSE {s \in SUBSET orig : Cardinality(s) = k}

\* d.update(bucket), every value a DiscoRead of BAM b
DictUpdate(d, bucket, b) ==
    [q \in DOMAIN d \cup bucket |-> IF q \in bucket THEN b ELSE d[q]]

\* self.discreads = list(all_mapped.values()) + list(all_unmapped.values())
DiscreadCount == Cardinality(DOMAIN all_mapped) + Cardinality(DOMAIN all_unmapped)

FetchIdle ==
    /\ nbams = 0
    /\ max_fetch = 0
    /\ bam_i = 0
    /\ bam_mapped = {}
    /\ bam_unmapped = {}
    /\ found = <<0, 0>>
    /\ all_mapped = <<>>
    /\ all_unmapped = <<>>
    /\ unmapped_region = {}
    /\ mate_read = {}
    /\ fetch_pc = "idle"

FetchInit ==
    /\ nbams \in 1..MaxBams
    /\ max_fetch \in 1..MaxMaxFetch
    /\ bam_i = 1
    /\ bam_mapped = {}
    /\ bam_unmapped = {}
    /\ found = <<0, 0>>
    /\ all_mapped = <<>>
    /\ all_unmapped = <<>>
    /\ unmapped_region = {}
    /\ mate_read = {}
    /\ fetch_pc = "fetch"

\* one read of bam.fetch whose mate is mapped far away or on another chromosome
FetchMateMapped ==
    /\ fetch_pc = "fetch"
    /\ \E q \in QNames \ bam_unmapped : bam_mapped' = bam_mapped \cup {q}
    /\ UNCHANGED <<nbams, max_fetch, bam_i, bam_unmapped, found, all_mapped, all_unmapped, fetch_pc, unmapped_region, mate_read>>
    /\ UNCHANGED notfetch

\* one read of bam.fetch whose mate is unmapped
FetchMateUnmapped ==
    /\ fetch_pc = "fetch"
    /\ \E q \in QNames \ bam_mapped : bam_unmapped' = bam_unmapped \cup {q}
    /\ UNCHANGED <<nbams, max_fetch, bam_i, bam_mapped, found, all_mapped, all_unmapped, fetch_pc, unmapped_region, mate_read>>
    /\ UNCHANGED notfetch

\* the fetch loop has ended and the buckets are over the cap
FetchSubsample ==
    /\ fetch_pc = "fetch"
    /\ Cardinality(bam_mapped) + Cardinality(bam_unmapped) > max_fetch
    /\ LET m == Cardinality(bam_mapped)
           u == Cardinality(bam_unmapped)
       IN  /\ found' = <<m, u>>
           /\ bam_mapped' \in subsample_dict(bam_mapped, SubCount(m, m + u, max_fetch))
           /\ bam_unmapped' \in subsample_dict(bam_unmapped, SubCount(u, m + u, max_fetch))
    /\ fetch_pc' = "mates"
    /\ UNCHANGED <<nbams, max_fetch, bam_i, all_mapped, all_unmapped, unmapped_region, mate_read>>
    /\ UNCHANGED notfetch

\* the fetch loop has ended and the buckets are within the cap
FetchNoSubsample ==
    /\ fetch_pc = "fetch"
    /\ Cardinality(bam_mapped) + Cardinality(bam_unmapped) <= max_fetch
    /\ found' = <<Cardinality(bam_mapped), Cardinality(bam_unmapped)>>
    /\ fetch_pc' = "mates"
    /\ UNCHANGED <<nbams, max_fetch, bam_i, bam_mapped, bam_unmapped, all_mapped, all_unmapped, unmapped_region, mate_read>>
    /\ UNCHANGED notfetch

\* the loop "mate unmapped": a second bam.fetch over the region; the first
\* unmapped, non-secondary, non-supplementary read whose name is in
\* bam_unmapped is attached to its DiscoRead, and the loop is left.  The loop
\* "mate mapped" before it changes nothing of this state.
FetchMates ==
    /\ fetch_pc = "mates"
    /\ \E region \in SUBSET QNames :
           /\ unmapped_region' = region
           /\ IF region \cap bam_unmapped = {}
              THEN mate_read' = {}
              ELSE \E first \in region \cap bam_unmapped : mate_read' = {first}
    /\ fetch_pc' = "merge"
    /\ UNCHANGED <<nbams, max_fetch, bam_i, bam_mapped, bam_unmapped, found, all_mapped, all_unmapped>>
    /\ UNCHANGED notfetch

\* buckets merged into all_mapped and all_unmapped; next BAM
FetchMerge ==
    /\ fetch_pc = "merge"
    /\ all_mapped' = DictUpdate(all_mapped, bam_mapped, bam_i)
    /\ all_unmapped' = DictUpdate(all_unmapped, bam_unmapped, bam_i)
    /\ IF bam_i < nbams
       THEN /\ bam_i' = bam_i + 1
            /\ bam_mapped' = {}
            /\ bam_unmapped' = {}
            /\ unmapped_region' = {}
            /\ mate_read' = {}
            /\ fetch_pc' = "fetch"
       ELSE /\ fetch_pc' = "done"
            /\ UNCHANGED <<bam_i, bam_mapped, bam_unmapped, unmapped_region, mate_read>>
    /\ UNCHANGED <<nbams, max_fetch, found>>
    /\ UNCHANGED notfetch

FetchNext ==
    \/ FetchMateMapped
    \/ FetchMateUnmapped
    \/ FetchSubsample
    \/ FetchNoSubsample
    \/ FetchMates
    \/ FetchMerge

(***************************************************************************)
(* run_chunk, tebreak                                                      *)
(*                                                                         *)
(* worker[c] is the state of the call of run_chunk on chunk c:             *)
(*   pc        the step the call is at, DONE and FAILED after its return   *)
(*   resource  the resource the retry loop is opening                      *)
(*   tries     passes of the current retry loop that ended in IOError      *)
(*   bams      "unbound", "open" or "closed"                               *)
(*   mask      "none" (None), "name" (the file name) or "open"             *)
(*   map_tabix "none" (None), "name" (the file name) or "open"             *)
(*   exhausted the resources whose retry loop ended without a break        *)
(*   result    "pending", "empty" ([]), "insertions", or "error" for an    *)
(*             exception that leaves run_chunk                             *)
(***************************************************************************)
Retries == 5

RunChunks == 1..NumRunChunks

Pipeline ==
    << "OPEN_RESOURCES", "COLLECT_SPLIT_READS", "CLUSTER", "BUILD_BREAKENDS", "MAP_BREAKENDS",
       "PAIR", "FILTER", "COLLECT_DISCORDANT", "IMPROVE_CONSENSUS", "SUMMARIZE", "DONE" >>

StepIndex(step) == CHOOSE i \in DOMAIN Pipeline : Pipeline[i] = step

\* a pipeline that leaves out the step after the next one
NextStepSkipping(step) == Pipeline[Min2(StepIndex(step) + 2, Len(Pipeline))]

NextStep(step) == Pipeline[StepIndex(step) + 1]

\* the steps between the retry loops and the return statements
WorkSteps == {Pipeline[i] : i \in 2..(Len(Pipeline) - 1)}

\* the statements of run_chunk inside try: ... except Exception
InTryOnlyWork(step) == step \in WorkSteps

InTry(step) == step \in WorkSteps \cup {"OPEN_RESOURCES"}

\* the retry loop that follows the one for resource r
NextResource(w, r) ==
    IF r = "bams" /\ w.mask # "none" THEN "mask"
    ELSE IF r \in {"bams", "mask"} /\ w.map_tabix # "none" THEN "map_tabix"
    ELSE "none"

\* the retry loop for w.resource has ended
AfterLoop(w) ==
    LET r == NextResource(w, w.resource)
    IN  [w EXCEPT !.resource = r, !.tries = 0,
                  !.pc = IF r = "none" THEN "COLLECT_SPLIT_READS" ELSE "OPEN_RESOURCES"]

\* the resource is open
Opened(w) ==
    IF w.resource = "bams" THEN [w EXCEPT !.bams = "open"]
    ELSE IF w.resource = "mask" THEN [w EXCEPT !.mask = "open"]
    ELSE [w EXCEPT !.map_tabix = "open"]

\* fetch_clipped_reads(bams, ...) with bams unbound is a NameError
MustRaise(w) == w.pc = "COLLECT_SPLIT_READS" /\ w.bams = "unbound"

NewWorker ==
    [pc |-> "OPEN_RESOURCES", resource |-> "bams", tries |-> 0, bams |-> "unbound",
     mask |-> IF args_mask THEN "name" ELSE "none",
     map_tabix |-> IF args_map_tabix THEN "name" ELSE "none",
     exhausted |-> {}, result |-> "pending"]

RunIdle ==
    /\ args_mask = FALSE
    /\ args_map_tabix = FALSE
    /\ worker = <<>>
    /\ got = <<>>
    /\ main_pc = "idle"

RunInit ==
    /\ args_mask \in BOOLEAN
    /\ args_map_tabix \in BOOLEAN
    /\ worker = [c \in RunChunks |-> NewWorker]
    /\ got = <<>>
    /\ main_pc = "collect"

\* one pass of a retry loop that opens the resource: break
RunOpenOk(c) ==
    /\ main_pc # "idle"
    /\ worker[c].pc = "OPEN_RESOURCES"
    /\ worker[c].tries < Retries
    /\ worker' = [worker EXCEPT ![c] = AfterLoop(Opened(worker[c]))]
    /\ UNCHANGED <<args_mask, args_map_tabix, got, main_pc>>
    /\ UNCHANGED notrun

\* one pass of a retry loop that ends in IOError: warning, sleep, next pass;
\* after the last pass the loop is over and run_chunk goes on
RunOpenIOError(c) ==
    /\ main_pc # "idle"
    /\ worker[c].pc = "OPEN_RESOURCES"
    /\ worker[c].tries < Retries
    /\ LET w == worker[c]
       IN  worker' = [worker EXCEPT ![c] =
               IF w.tries + 1 < Retries
               THEN [w EXCEPT !.tries = w.tries + 1]
               ELSE AfterLoop([w EXCEPT !.exhausted = w.exhausted \cup {w.resource}])]
    /\ UNCHANGED <<args_mask, args_map_tabix, got, main_pc>>
    /\ UNCHANGED notrun

\* a step of the pipeline runs to its end; with breakends, after BUILD_BREAKENDS
RunStepOk(c) ==
    /\ main_pc # "idle"
    /\ worker[c].pc \in WorkSteps \ {"SUMMARIZE"}
    /\ ~MustRaise(worker[c])
    /\ worker' = [worker EXCEPT ![c].pc = NextStep(worker[c].pc)]
    /\ UNCHANGED <<args_mask, args_map_tabix, got, main_pc>>
    /\ UNCHANGED notrun

\* len(breakends) = 0 after BUILD_BREAKENDS: close the BAMs, return []
RunNoBreakends(c) ==
    /\ main_pc # "idle"
    /\ worker[c].pc = "BUILD_BREAKENDS"
    /\ worker' = [worker EXCEPT ![c].pc = "DONE", ![c].bams = "closed", ![c].result = "empty"]
    /\ UNCHANGED <<args_mask, args_map_tabix, got, main_pc>>
    /\ UNCHANGED notrun

\* the insertions are summarised, the BAMs closed and the list returned
RunReturn(c) ==
    /\ main_pc # "idle"
    /\ worker[c].pc = "SUMMARIZE"
    /\ \E res \in {"empty", "insertions"} :
           worker' = [worker EXCEPT ![c].pc = "DONE", ![c].bams = "closed", ![c].result = res]
    /\ UNCHANGED <<args_mask, args_map_tabix, got, main_pc>>
    /\ UNCHANGED notrun

\* an exception at the current step: caught by except Exception when the
\* step is inside the try block, and run_chunk returns []
RunRaise(c) ==
    /\ main_pc # "idle"
    /\ worker[c].pc \notin {"DONE", "FAILED"}
    /\ worker' = [worker EXCEPT ![c].pc = "FAILED",
                                ![c].result = IF InTry(worker[c].pc) THEN "empty" ELSE "error"]
    /\ UNCHANGED <<args_mask, args_map_tabix, got, main_pc>>
    /\ UNCHANGED notrun

\* insertions += res.get() for the next result of reslist; get() waits for
\* the result and raises the exception that left run_chunk, if any
RunCollect ==
    /\ main_pc = "collect"
    /\ Len(got) < NumRunChunks
    /\ LET c == Len(got) + 1
       IN  /\ worker[c].result # "pending"
           /\ IF worker[c].result = "error"
              THEN main_pc' = "aborted" /\ got' = got
              ELSE main_pc' = main_pc /\ got' = Append(got, c)
    /\ UNCHANGED <<args_mask, args_map_tabix, worker>>
    /\ UNCHANGED notrun

\* insertions = resolve_duplicates(insertions)
RunMerge ==
    /\ main_pc = "collect"
    /\ Len(got) = NumRunChunks
    /\ main_pc' = "done"
    /\ UNCHANGED <<args_mask, args_map_tabix, worker, got>>
    /\ UNCHANGED notrun

\* the steps of the worker process that runs chunk c
RunWorker(c) ==
    \/ RunOpenOk(c)
    \/ RunOpenIOError(c)
    \/ RunStepOk(c)
    \/ RunNoBreakends(c)
    \/ RunReturn(c)
    \/ RunRaise(c)

RunNext ==
    \/ \E c \in RunChunks : RunOpenOk(c)
    \/ \E c \in RunChunks : RunOpenIOError(c)
    \/ \E c \in RunChunks : RunStepOk(c)
    \/ \E c \in RunChunks : RunNoBreakends(c)
    \/ \E c \in RunChunks : RunReturn(c)
    \/ \E c \in RunChunks : RunRaise(c)
    \/ RunCollect
    \/ RunMerge

(***************************************************************************)
(* map_breakends                                                           *)
(*                                                                         *)
(* The SAM file is header lines followed by records.  A record is named by *)
(* its number in the file bwa wrote; pysam raises IOError on the records   *)
(* of bad.  bwa writes a header of at least two lines (@SQ, @PG).          *)
(***************************************************************************)
Unbound == 0 - 1

MinSamHeader == 2

\* number of records that enumerate(sam.fetch()) yields before the IOError
GoodPrefixLen(records, badset) ==
    IF \A k \in DOMAIN records : records[k] \notin badset THEN Len(records)
    ELSE (CHOOSE k \in DOMAIN records :
              /\ records[k] \in badset
              /\ \A j \in 1..(k - 1) : records[j] \notin badset) - 1

\* the header lines the rewrite keeps: line h (from 0) has n = h - 1 < i
KeptHeader(header, i) == Min2(header, i + 1)

\* the records the rewrite keeps: record r (from 0) is line n = header + r < i
KeptRecords(header, records, i) ==
    SubSeq(records, 1, Min2(Len(records), Max2(0, i - header)))

MapIdle ==
    /\ tmp_fa = FALSE
    /\ tmp_sam = FALSE
    /\ sam_orig = [header |-> 0, records |-> <<>>]
    /\ sam_header = 0
    /\ sam_records = <<>>
    /\ bad = {}
    /\ mb_i = Unbound
    /\ mappings = <<>>
    /\ truncations = 0
    /\ map_pc = "idle"

MapInit ==
    /\ tmp_fa = FALSE
    /\ tmp_sam = FALSE
    /\ sam_orig = [header |-> 0, records |-> <<>>]
    /\ sam_header = 0
    /\ sam_records = <<>>
    /\ bad = {}
    /\ mb_i = Unbound
    /\ mappings = <<>>
    /\ truncations = 0
    /\ map_pc = "fasta"

\* the consensus sequences are written to tmp_fa
MapWriteFasta ==
    /\ map_pc = "fasta"
    /\ tmp_fa' = TRUE
    /\ map_pc' = "bwa"
    /\ UNCHANGED <<tmp_sam, sam_orig, sam_header, sam_records, bad, mb_i, mappings, truncations>>
    /\ UNCHANGED notmap

\* bwa mem writes tmp_sam
MapRunBwa ==
    /\ map_pc = "bwa"
    /\ tmp_sam' = TRUE
    /\ \E h \in MinSamHeader..MaxSamHeader, r \in 0..MaxSamRecords :
           /\ sam_orig' = [header |-> h, records |-> [k \in 1..r |-> k]]
           /\ sam_header' = h
           /\ sam_records' = [k \in 1..r |-> k]
           /\ bad' \in SUBSET (1..r)
    /\ map_pc' = "open"
    /\ UNCHANGED <<tmp_fa, mb_i, mappings, truncations>>
    /\ UNCHANGED notmap

\* sam = pysam.AlignmentFile(tmp_sam)
MapOpenSam ==
    /\ map_pc = "open"
    /\ map_pc' = "parse"
    /\ UNCHANGED <<tmp_fa, tmp_sam, sam_orig, sam_header, sam_records, bad, mb_i, mappings, truncations>>
    /\ UNCHANGED notmap

\* an exception while the FASTA file is written, while bwa runs or when the
\* SAM file is opened leaves map_breakends; the file of the step may exist
MapRaise ==
    /\ map_pc \in {"fasta", "bwa", "open"}
    /\ IF map_pc = "fasta" THEN tmp_fa' \in BOOLEAN /\ tmp_sam' = tmp_sam
       ELSE IF map_pc = "bwa" THEN tmp_sam' \in BOOLEAN /\ tmp_fa' = tmp_fa
       ELSE UNCHANGED <<tmp_fa, tmp_sam>>
    /\ map_pc' = "raised"
    /\ UNCHANGED <<sam_orig, sam_header, sam_records, bad, mb_i, mappings, truncations>>
    /\ UNCHANGED notmap

\* the parse loop reaches the end of the file: close, remove both files, return
MapParseOk ==
    /\ map_pc = "parse"
    /\ GoodPrefixLen(sam_records, bad) = Len(sam_records)
    /\ mappings' = mappings \o sam_records
    /\ mb_i' = IF Len(sam_records) > 0 THEN Len(sam_records) - 1 ELSE mb_i
    /\ tmp_fa' = FALSE
    /\ tmp_sam' = FALSE
    /\ map_pc' = "done"
    /\ UNCHANGED <<sam_orig, sam_header, sam_records, bad, truncations>>
    /\ UNCHANGED notmap

\* IOError in the parse loop with i bound: the file is rewritten with the
\* lines whose n is below i, and opened again
MapParseRewrite ==
    /\ map_pc = "parse"
    /\ GoodPrefixLen(sam_records, bad) < Len(sam_records)
    /\ LET f == GoodPrefixLen(sam_records, bad)
           i == IF f > 0 THEN f - 1 ELSE mb_i
       IN  /\ i # Unbound
           /\ mappings' = mappings \o SubSeq(sam_records, 1, f)
           /\ mb_i' = i
           /\ sam_header' = KeptHeader(sam_header, i)
           /\ sam_records' = KeptRecords(sam_header, sam_records, i)
    /\ truncations' = truncations + 1
    /\ UNCHANGED <<tmp_fa, tmp_sam, sam_orig, bad, map_pc>>
    /\ UNCHANGED notmap

\* IOError on the first record of the first pass: i is unbound in the
\* warning of the handler, which is a NameError that leaves map_breakends
MapParseUnbound ==
    /\ map_pc = "parse"
    /\ GoodPrefixLen(sam_records, bad) = 0
    /\ Len(sam_records) > 0
    /\ mb_i = Unbound
    /\ map_pc' = "nameerror"
    /\ UNCHANGED <<tmp_fa, tmp_sam, sam_orig, sam_header, sam_records, bad, mb_i, mappings, truncations>>
    /\ UNCHANGED notmap

MapNext ==
    \/ MapWriteFasta
    \/ MapRunBwa
    \/ MapOpenSam
    \/ MapRaise
    \/ MapParseOk
    \/ MapParseRewrite
    \/ MapParseUnbound

(***************************************************************************)
(* filter_insertions                                                       *)
(*                                                                         *)
(* A candidate is a record [rgs, other]: rgs is the set of the read groups *)
(* of its supporting reads (never empty: a cluster has a read, and a read  *)
(* without RG tag has the read group None), other says that one of the     *)
(* other filters (mapq, split reads, BAM, mappability) excludes it.        *)
(***************************************************************************)
ReadGroups == 1..MaxReadGroups

CandidateChoices == [rgs : (SUBSET ReadGroups) \ {{}}, other : BOOLEAN]

\* the filters dictionary that run_chunk builds, as far as this loop reads it
Filters == [exclude_readgroup |-> exclude_readgroup]

\* filters[key] raises KeyError
KeyError(key) == key \notin DOMAIN Filters

\* exclude after all tests of the loop body
Excluded(cand) ==
    \/ cand.other
    \/ Filters["exclude_readgroup"] # {} /\ cand.rgs \cap Filters["exclude_rg"] # {}

FilterIdle ==
    /\ candidates = <<>>
    /\ exclude_readgroup = {}
    /\ filtered = <<>>
    /\ fi_i = 0
    /\ filter_pc = "idle"

FilterInit ==
    /\ candidates \in SeqsUpTo(CandidateChoices, MaxCandidates)
    /\ exclude_readgroup \in SUBSET ReadGroups
    /\ filtered = <<>>
    /\ fi_i = 1
    /\ filter_pc = "loop"

\* one pass of the loop over the insertions
FilterOne ==
    /\ filter_pc = "loop"
    /\ fi_i <= Len(candidates)
    /\ IF Filters["exclude_readgroup"] # {} /\ KeyError("exclude_rg")
       THEN /\ filter_pc' = "keyerror"
            /\ UNCHANGED <<filtered, fi_i>>
       ELSE /\ filtered' = IF Excluded(candidates[fi_i]) THEN filtered ELSE Append(filtered, fi_i)
            /\ fi_i' = fi_i + 1
            /\ UNCHANGED filter_pc
    /\ UNCHANGED <<candidates, exclude_readgroup>>
    /\ UNCHANGED notfilter

\* return filtered
FilterReturn ==
    /\ filter_pc = "loop"
    /\ fi_i > Len(candidates)
    /\ filter_pc' = "done"
    /\ UNCHANGED <<candidates, exclude_readgroup, filtered, fi_i>>
    /\ UNCHANGED notfilter

FilterNext ==
    \/ FilterOne
    \/ FilterReturn

(***************************************************************************)
(* SplitCluster.consensus                                                  *)
(*                                                                         *)
(* Scores are in thousandths.  One pass of the loop has the outcome of its *)
(* alignment: IndexError, or a conservation score and whether the aligned  *)
(* part of cons was found and ends within 5 bases of the end of cons.      *)
(***************************************************************************)
minscore == 900

ScoreChoices == {0, 850, 900, 950, 1000}

Score(num, den) == [num |-> num, den |-> den]

\* np.mean(scores)
Mean(s) == Score(SumSeq(s), Len(s))

\* score >= minscore and cons_end > len(cons)-5, inside if re.search(a1, cons)
Accepted(score, at_end) == score >= minscore /\ at_end

ConsIdle ==
    /\ uniq = 0
    /\ cons_k = 0
    /\ scores = <<>>
    /\ cons_score = Score(0, 1)
    /\ cons_pc = "idle"

ConsInit ==
    /\ uniq \in 0..MaxUniq
    /\ cons_k = 0
    /\ scores = <<>>
    /\ cons_score = Score(0, 1)
    /\ cons_pc = "start"

\* no sequence is left after trimming: return '', 0.0
ConsNoSeq ==
    /\ cons_pc = "start"
    /\ uniq = 0
    /\ cons_score' = Score(0, 1)
    /\ cons_pc' = "done"
    /\ UNCHANGED <<uniq, cons_k, scores>>
    /\ UNCHANGED notcons

\* one sequence, or all sequences the same: return it with 1.0
ConsOneSeq ==
    /\ cons_pc = "start"
    /\ uniq = 1
    /\ cons_score' = Score(1000, 1)
    /\ cons_pc' = "done"
    /\ UNCHANGED <<uniq, cons_k, scores>>
    /\ UNCHANGED notcons

\* cons = uniq_seqs[0]; scores = []
ConsEnterLoop ==
    /\ cons_pc = "start"
    /\ uniq > 1
    /\ cons_pc' = "loop"
    /\ UNCHANGED <<uniq, cons_k, scores, cons_score>>
    /\ UNCHANGED notcons

\* one pass of the loop whose alignment succeeds
ConsAlign ==
    /\ cons_pc = "loop"
    /\ cons_k < uniq - 1
    /\ \E score \in ScoreChoices, at_end \in BOOLEAN :
           scores' = IF Accepted(score, at_end) THEN Append(scores, score) ELSE scores
    /\ cons_k' = cons_k + 1
    /\ UNCHANGED <<uniq, cons_score, cons_pc>>
    /\ UNCHANGED notcons

\* one pass of the loop whose alignment raises IndexError: return cons, 0.0
ConsIndexError ==
    /\ cons_pc = "loop"
    /\ cons_k < uniq - 1
    /\ cons_k' = cons_k + 1
    /\ cons_score' = Score(0, 1)
    /\ cons_pc' = "done"
    /\ UNCHANGED <<uniq, scores>>
    /\ UNCHANGED notcons

\* after the loop: return cons, np.mean(scores), or cons, 0.0 without scores
ConsReturn ==
    /\ cons_pc = "loop"
    /\ cons_k = uniq - 1
    /\ cons_score' = IF scores # <<>> THEN Mean(scores) ELSE Score(0, 1)
    /\ cons_pc' = "done"
    /\ UNCHANGED <<uniq, cons_k, scores>>
    /\ UNCHANGED notcons

ConsNext ==
    \/ ConsNoSeq
    \/ ConsOneSeq
    \/ ConsEnterLoop
    \/ ConsAlign
    \/ ConsIndexError
    \/ ConsReturn

(***************************************************************************)
(* postprocess_insertions, minia, concat_fa, Insertion.improve_consensus   *)
(*                                                                         *)
(* An insertion holds references to BreakEnd objects: be1 and be1_alt are  *)
(* keys of heap, 0 for None.  A consensus is "old" (from the cluster) or   *)
(* "contig" (from the assembly); mappings are "old" (of the old            *)
(* consensus), "prox" or "noprox" (of a remapped consensus, with or        *)
(* without a mapping over the breakpoint).  outreads is the number of      *)
(* reads supportreads_fastq finds for the insertion.  be2 goes through the *)
(* same statements as be1 and is left out.                                 *)
(***************************************************************************)
AsmRetries == 10

\* os.path.exists(support_asm): minia returns the file that concat_fa has
\* opened for writing, with or without contigs in it
AsmExists(contigs) == TRUE

\* the runs of minia for one insertion: the first one and the retry loop;
\* outs[r] says whether run r wrote contigs
RECURSIVE MiniaRuns(_, _)
MiniaRuns(outs, retry_counter) ==
    IF ~AsmExists(outs[retry_counter + 1]) /\ retry_counter < AsmRetries
    THEN MiniaRuns(outs, retry_counter + 1)
    ELSE retry_counter + 1

\* self.be1_alt = self.be1; self.be1.consensus = contig; the flag is set
Improve(ins) == [ins EXCEPT !.be1_alt = ins.be1, !.be1_improved_cons = TRUE]

\* the third loop of postprocess_insertions for one insertion
Resolve(ins, np) ==
    IF ins.be1_improved_cons /\ ins.be1 \in np
    THEN [ins EXCEPT !.be1 = ins.be1_alt, !.be1_improved_cons = FALSE]
    ELSE ins

\* the breakends of alt_be_list
AltBreakEnds == {post_ins[k].be1 : k \in {j \in DOMAIN post_ins : post_ins[j].be1_improved_cons}}

PostIdle ==
    /\ post_ins = <<>>
    /\ heap = <<>>
    /\ post_i = 0
    /\ attempts = <<>>
    /\ asm_ok = {}
    /\ reported = {}
    /\ noprox = {}
    /\ post_pc = "idle"

PostInit ==
    /\ \E len \in 0..MaxPostIns :
         \E outreads \in [1..len -> 0..MaxOutReads] :
           /\ post_ins = [k \in 1..len |-> [be1 |-> k, be1_alt |-> 0, be1_improved_cons |-> FALSE,
                                             outreads |-> outreads[k]]]
           /\ heap = [b \in 1..len |-> [consensus |-> "old", mappings |-> "old"]]
           /\ attempts = [k \in 1..len |-> 0]
    /\ post_i = 1
    /\ asm_ok = {}
    /\ reported = {}
    /\ noprox = {}
    /\ post_pc = "loop"

\* supportreads_fastq returns None: return insertions
PostNoSupport ==
    /\ post_pc = "loop"
    /\ post_i <= Len(post_ins)
    /\ post_ins[post_i].outreads = 0
    /\ post_pc' = "done"
    /\ UNCHANGED <<post_ins, heap, post_i, attempts, asm_ok, reported, noprox>>
    /\ UNCHANGED notpost

\* one pass of the first loop with a FASTQ file: minia and its retries, then
\* the report of the failure or improve_consensus, then the removal of the files
PostAssemble ==
    /\ post_pc = "loop"
    /\ post_i <= Len(post_ins)
    /\ post_ins[post_i].outreads > 0
    /\ \E outs \in [1..(AsmRetries + 1) -> BOOLEAN], adopt \in BOOLEAN :
           LET runs == MiniaRuns(outs, 0)
               ok   == outs[runs]
           IN  /\ attempts' = [attempts EXCEPT ![post_i] = runs]
               /\ asm_ok' = IF ok THEN asm_ok \cup {post_i} ELSE asm_ok
               /\ IF ~AsmExists(ok)
                  THEN /\ reported' = reported \cup {post_i}
                       /\ UNCHANGED <<post_ins, heap>>
                  ELSE /\ UNCHANGED reported
                       /\ IF ok /\ adopt
                          THEN /\ post_ins' = [post_ins EXCEPT ![post_i] = Improve(post_ins[post_i])]
                               /\ heap' = [heap EXCEPT ![post_ins[post_i].be1].consensus = "contig"]
                          ELSE UNCHANGED <<post_ins, heap>>
    /\ post_i' = post_i + 1
    /\ UNCHANGED <<noprox, post_pc>>
    /\ UNCHANGED notpost

\* after the first loop: map_breakends(alt_be_list) replaces the mappings of
\* every altered breakend
PostRemap ==
    /\ post_pc = "loop"
    /\ post_i > Len(post_ins)
    /\ \E np \in SUBSET AltBreakEnds :
           /\ noprox' = np
           /\ heap' = [b \in DOMAIN heap |->
                          IF b \in AltBreakEnds
                          THEN [heap[b] EXCEPT !.mappings = IF b \in np THEN "noprox" ELSE "prox"]
                          ELSE heap[b]]
    /\ post_i' = 1
    /\ post_pc' = "resolve"
    /\ UNCHANGED <<post_ins, attempts, asm_ok, reported>>
    /\ UNCHANGED notpost

\* one pass of the third loop: keep the remapped breakend or go back to be1_alt
PostResolve ==
    /\ post_pc = "resolve"
    /\ post_i <= Len(post_ins)
    /\ post_ins' = [post_ins EXCEPT ![post_i] = Resolve(post_ins[post_i], noprox)]
    /\ post_i' = post_i + 1
    /\ UNCHANGED <<heap, attempts, asm_ok, reported, noprox, post_pc>>
    /\ UNCHANGED notpost

\* return insertions
PostReturn ==
    /\ post_pc = "resolve"
    /\ post_i > Len(post_ins)
    /\ post_pc' = "done"
    /\ UNCHANGED <<post_ins, heap, post_i, attempts, asm_ok, reported, noprox>>
    /\ UNCHANGED notpost

PostNext ==
    \/ PostNoSupport
    \/ PostAssemble
    \/ PostRemap
    \/ PostResolve
    \/ PostReturn

(***************************************************************************)
(* Insertion.improve_consensus: the test that adopts a contig               *)
(*                                                                         *)
(* A breakend comes with the length of its consensus and one LAST result   *)
(* of that consensus against the contigs: target_seqsize is the length of  *)
(* the contig, query_alnsize the aligned part of the consensus, matches    *)
(* the number of equal columns that pct_match divides by query_alnsize.    *)
(* The float comparisons are taken in integers: x/y < p/100 is             *)
(* 100*x < p*y for positive y.                                             *)
(***************************************************************************)
LastResults ==
    UNION {[conslen : {c}, target_seqsize : (c - MaxCtgDiff)..(c + MaxCtgDiff),
            query_alnsize : {a}, matches : 0..a] : <<c, a>> \in {<<c, a>> \in (1..MaxConsLen) \X (1..MaxConsLen) : a <= c}}

NoResult == [conslen |-> 0, target_seqsize |-> 0, query_alnsize |-> 0, matches |-> 0]

\* unaln_frac < limit/100, unaln_frac = float(len(consensus) - res.query_alnsize) / len(consensus)
UnalnFracBelow(r, limit) == (r.conslen - r.query_alnsize) * 100 < limit * r.conslen

\* res.pct_match() > 0.95
PctMatchOver95(r) == r.matches * 100 > 95 * r.query_alnsize

\* the condition on the result of be1
AdoptBe1(r) == r.target_seqsize > r.conslen /\ UnalnFracBelow(r, 15) /\ PctMatchOver95(r)

\* the condition on the result of be2
AdoptBe2(r) == r.target_seqsize > r.conslen /\ UnalnFracBelow(r, 10) /\ PctMatchOver95(r)

ImpIdle ==
    /\ imp_be1 = NoResult
    /\ imp_be2 = NoResult
    /\ be1_improved_cons = FALSE
    /\ be2_improved_cons = FALSE
    /\ imp_pc = "idle"

\* the insertion with its flags as Insertion.__init__ sets them
ImpInit ==
    /\ imp_be1 \in LastResults
    /\ imp_be2 = NoResult
    /\ be1_improved_cons = FALSE
    /\ be2_improved_cons = FALSE
    /\ imp_pc = "be1"

\* if self.be1 is not None: the loop over la_results finds the result of be1
ImproveBe1 ==
    /\ imp_pc = "be1"
    /\ be1_improved_cons' = AdoptBe1(imp_be1)
    /\ imp_be2' \in LastResults
    /\ imp_pc' = "be2"
    /\ UNCHANGED <<imp_be1, be2_improved_cons>>
    /\ UNCHANGED notimp

\* if self.be2 is not None: the loop over la_results finds the result of be2;
\* the files are removed and the two flags returned
ImproveBe2 ==
    /\ imp_pc = "be2"
    /\ be2_improved_cons' = AdoptBe2(imp_be2)
    /\ imp_pc' = "done"
    /\ UNCHANGED <<imp_be1, imp_be2, be1_improved_cons>>
    /\ UNCHANGED notimp

ImpNext ==
    \/ ImproveBe1
    \/ ImproveBe2

(***************************************************************************)
(* BreakEnd.unmapped_subread, locate_subseq                                *)
(*                                                                         *)
(* Positions are the 0-based positions of Python; base p of the consensus  *)
(* is us_consensus[p + 1].  A mapping is given by the part of the          *)
(* consensus it aligns; its query_alignment_sequence is that substring,    *)
(* which orient_subseq returns in the orientation of the consensus.        *)
(***************************************************************************)
Bases == {"A", "C"}

\* s[start:end]
Slice(s, start, end) == SubSeq(s, start + 1, end)

\* locate_subseq(longseq, shortseq): start and end of the leftmost match
locate_subseq(longseq, shortseq) ==
    LET starts == {k \in 0..(Len(longseq) - Len(shortseq)) :
                      Slice(longseq, k, k + Len(shortseq)) = shortseq}
        first  == CHOOSE k \in starts : \A j \in starts : k <= j
    IN  <<first, first + Len(shortseq)>>

\* covered_bases, as a set
covered_bases(consensus, aligned) ==
    UNION {LET loc == locate_subseq(consensus, Slice(consensus, m[1], m[2]))
           IN  loc[1]..(loc[2] - 1) : m \in aligned}

\* the parts [start, end) a mapping can align
AlignedParts(len) == {m \in (0..len) \X (0..len) : m[1] < m[2]}

UsIdle ==
    /\ us_consensus = <<>>
    /\ us_aligned = {}
    /\ us_p = 0
    /\ us_interval = <<>>
    /\ us_subseq = <<>>
    /\ us_intervals = <<>>
    /\ us_subseqs = <<>>
    /\ us_pc = "idle"

\* the state before the loop over the consensus
UsInit ==
    /\ us_consensus \in SeqsUpTo(Bases, MaxUsLen) \ {<<>>}
    /\ us_aligned \in {a \in SUBSET AlignedParts(Len(us_consensus)) : Cardinality(a) <= MaxUsMappings}
    /\ us_p = 0
    /\ us_interval = <<>>
    /\ us_subseq = <<>>
    /\ us_intervals = <<>>
    /\ us_subseqs = <<>>
    /\ us_pc = "loop"

\* for p, b in enumerate(consensus): p is in covered_bases
UsCovered ==
    /\ us_pc = "loop"
    /\ us_p < Len(us_consensus)
    /\ us_p \in covered_bases(us_consensus, us_aligned)
    /\ us_p' = us_p + 1
    /\ UNCHANGED <<us_consensus, us_aligned, us_interval, us_subseq, us_intervals, us_subseqs, us_pc>>
    /\ UNCHANGED notus

\* p is not covered and does not follow the last position of the open run:
\* the run is closed and a new one opened
UsCloseRun ==
    /\ us_pc = "loop"
    /\ us_p < Len(us_consensus)
    /\ us_p \notin covered_bases(us_consensus, us_aligned)
    /\ Len(us_interval) > 0
    /\ us_interval[Len(us_interval)] + 1 < us_p
    /\ us_intervals' = Append(us_intervals, <<us_interval[1], us_interval[Len(us_interval)]>>)
    /\ us_subseqs' = Append(us_subseqs, us_subseq)
    /\ us_interval' = <<>>
    /\ us_subseq' = <<>>
    /\ us_p' = us_p + 1
    /\ UNCHANGED <<us_consensus, us_aligned, us_pc>>
    /\ UNCHANGED notus

\* p is not covered: else: p and its base go to the open run
UsExtendRun ==
    /\ us_pc = "loop"
    /\ us_p < Len(us_consensus)
    /\ us_p \notin covered_bases(us_consensus, us_aligned)
    /\ IF Len(us_interval) > 0 THEN us_interval[Len(us_interval)] + 1 >= us_p ELSE TRUE
    /\ us_interval' = Append(us_interval, us_p)
    /\ us_subseq' = Append(us_subseq, us_consensus[us_p + 1])
    /\ us_p' = us_p + 1
    /\ UNCHANGED <<us_consensus, us_aligned, us_intervals, us_subseqs, us_pc>>
    /\ UNCHANGED notus

\* after the loop: the open run is closed; return intervals, subseqs
UsReturn ==
    /\ us_pc = "loop"
    /\ us_p = Len(us_consensus)
    /\ IF Len(us_interval) > 0
       THEN /\ us_intervals' = Append(us_intervals, <<us_interval[1], us_interval[Len(us_interval)]>>)
            /\ us_subseqs' = Append(us_subseqs, us_subseq)
       ELSE UNCHANGED <<us_intervals, us_subseqs>>
    /\ us_pc' = "done"
    /\ UNCHANGED <<us_consensus, us_aligned, us_p, us_interval, us_subseq>>
    /\ UNCHANGED notus

UsNext ==
    \/ UsCovered
    \/ UsCloseRun
    \/ UsExtendRun
    \/ UsReturn

(***************************************************************************)
(* Specifications                                                          *)
(***************************************************************************)
InitChunk == ChunkInit /\ PairIdle /\ ClusterIdle /\ DedupIdle /\ FetchIdle /\ RunIdle /\ MapIdle /\ FilterIdle /\ ConsIdle /\ PostIdle /\ ImpIdle /\ UsIdle

SpecChunk == InitChunk /\ [][ChunkNext]_vars

InitPair == PairInit /\ ChunkIdle /\ ClusterIdle /\ DedupIdle /\ FetchIdle /\ RunIdle /\ MapIdle /\ FilterIdle /\ ConsIdle /\ PostIdle /\ ImpIdle /\ UsIdle

SpecPair == InitPair /\ [][PairNext]_vars

InitCluster == ClusterInit /\ ChunkIdle /\ PairIdle /\ DedupIdle /\ FetchIdle /\ RunIdle /\ MapIdle /\ FilterIdle /\ ConsIdle /\ PostIdle /\ ImpIdle /\ UsIdle

SpecCluster == InitCluster /\ [][ClusterNext]_vars

InitDedup == DedupInit /\ ChunkIdle /\ PairIdle /\ ClusterIdle /\ FetchIdle /\ RunIdle /\ MapIdle /\ FilterIdle /\ ConsIdle /\ PostIdle /\ ImpIdle /\ UsIdle

SpecDedup == InitDedup /\ [][DedupNext]_vars

InitFetch == FetchInit /\ ChunkIdle /\ PairIdle /\ ClusterIdle /\ DedupIdle /\ RunIdle /\ MapIdle /\ FilterIdle /\ ConsIdle /\ PostIdle /\ ImpIdle /\ UsIdle

SpecFetch == InitFetch /\ [][FetchNext]_vars

InitRun == RunInit /\ ChunkIdle /\ PairIdle /\ ClusterIdle /\ DedupIdle /\ FetchIdle /\ MapIdle /\ FilterIdle /\ ConsIdle /\ PostIdle /\ ImpIdle /\ UsIdle

SpecRun == InitRun /\ [][RunNext]_vars

\* every worker process of the pool keeps running until run_chunk returns
SpecRunFair == InitRun /\ [][RunNext]_vars /\ \A c \in RunChunks : WF_vars(RunWorker(c))

InitMap == MapInit /\ ChunkIdle /\ PairIdle /\ ClusterIdle /\ DedupIdle /\ FetchIdle /\ RunIdle /\ FilterIdle /\ ConsIdle /\ PostIdle /\ ImpIdle /\ UsIdle

SpecMap == InitMap /\ [][MapNext]_vars

InitFilter == FilterInit /\ ChunkIdle /\ PairIdle /\ ClusterIdle /\ DedupIdle /\ FetchIdle /\ RunIdle /\ MapIdle /\ ConsIdle /\ PostIdle /\ ImpIdle /\ UsIdle

SpecFilter == InitFilter /\ [][FilterNext]_vars

InitCons == ConsInit /\ ChunkIdle /\ PairIdle /\ ClusterIdle /\ DedupIdle /\ FetchIdle /\ RunIdle /\ MapIdle /\ FilterIdle /\ PostIdle /\ ImpIdle /\ UsIdle

SpecCons == InitCons /\ [][ConsNext]_vars

InitPost == PostInit /\ ChunkIdle /\ PairIdle /\ ClusterIdle /\ DedupIdle /\ FetchIdle /\ RunIdle /\ MapIdle /\ FilterIdle /\ ConsIdle /\ ImpIdle /\ UsIdle

SpecPost == InitPost /\ [][PostNext]_vars

InitImp == ImpInit /\ ChunkIdle /\ PairIdle /\ ClusterIdle /\ DedupIdle /\ FetchIdle /\ RunIdle /\ MapIdle /\ FilterIdle /\ ConsIdle /\ PostIdle /\ UsIdle

SpecImp == InitImp /\ [][ImpNext]_vars

InitUs == UsInit /\ ChunkIdle /\ PairIdle /\ ClusterIdle /\ DedupIdle /\ FetchIdle /\ RunIdle /\ MapIdle /\ FilterIdle /\ ConsIdle /\ PostIdle /\ ImpIdle

SpecUs == InitUs /\ [][UsNext]_vars

(***************************************************************************)
(* Genome.chunk: claims                                                    *)
(***************************************************************************)
\* how many emitted intervals hold base b of chromosome c
CoverCount(c, b) ==
    Cardinality({i \in DOMAIN ChunkFlat :
        /\ ChunkFlat[i][1] = c
        /\ ChunkFlat[i][2] <= b
        /\ b < ChunkFlat[i][3]})

\* C1: with pad=0 the intervals returned by Genome.chunk hold every base of
\* every chromosome exactly once.
C1_CoverExactlyOnce ==
    (chunk_pc = "done" /\ pad = 0) =>
        \A c \in DOMAIN chrlen : \A b \in 0..(chrlen[c] - 1) : CoverCount(c, b) = 1

\* C2: Genome.chunk(n, flatten=False) returns exactly n chunk lists.
C2_ExactlyNChunks ==
    chunk_pc = "done" => Len(chunks) = n

\* C27: Genome.chunk terminates for every n >= 1 and every table of
\* chromosomes of positive length, n above the genome length included: the for
\* loop is over a finite list, and every pass of the while loop takes at
\* least one base off lenleft.
C27_WhileLoopTerminates ==
    [][(chunk_pc = "while" /\ chunk_pc' = "while") => lenleft' < lenleft]_vars

(***************************************************************************)
(* build_insertions: claims                                                *)
(***************************************************************************)
\* the insertions that hold breakend i
InsertionsOf(i) == {k \in DOMAIN insertions : insertions[k].be1 = i \/ insertions[k].be2 = i}

\* the two-sided insertions that hold breakend i
PairedInsertionsOf(i) == {k \in InsertionsOf(i) : paired(insertions[k])}

\* C3: no breakend id is in more than one accepted (two-sided) pair, at any
\* point of the greedy loop and in the returned list.
C3_MatchingExclusive ==
    \A i \in DOMAIN breakends :
        /\ Cardinality(PairedInsertionsOf(i)) <= 1
        /\ \A k \in PairedInsertionsOf(i) : insertions[k].be1 # insertions[k].be2

\* a candidate pair was turned down because one of its breakends was taken
C3_Witness ==
    /\ pair_pc = "done"
    /\ \E k \in DOMAIN insertions : paired(insertions[k])
    /\ \E a, b \in DOMAIN pair_scores :
          /\ a < b
          /\ {pair_scores[a][1], pair_scores[a][2]} \cap {pair_scores[b][1], pair_scores[b][2]} # {}

\* C4: every input breakend is in exactly one returned insertion, as one side
\* of a two-sided one or as the only breakend of a single-sided one.
C4_EveryBreakendOnce ==
    pair_pc = "done" =>
        /\ \A i \in DOMAIN breakends : Cardinality(InsertionsOf(i)) = 1
        /\ \A k \in DOMAIN insertions :
              /\ insertions[k].be1 \in DOMAIN breakends
              /\ insertions[k].be2 \in DOMAIN breakends \cup {0}
              /\ insertions[k].be1 # insertions[k].be2

\* a returned list with a two-sided and a single-sided insertion
C4_Witness ==
    /\ pair_pc = "done"
    /\ Len(breakends) = 3
    /\ \E k \in DOMAIN insertions : paired(insertions[k])
    /\ \E k \in DOMAIN insertions : ~paired(insertions[k])

\* the input of C5: two breakends of opposite direction, at most maxdist
\* apart, each with a proximal sub-alignment
C5_Input ==
    /\ Len(breakends) = 2
    /\ breakends[1].direction # breakends[2].direction
    /\ Abs(breakends[1].breakpos - breakends[2].breakpos) <= maxdist
    /\ proximal_subread(breakends[1]) # <<>>
    /\ proximal_subread(breakends[2]) # <<>>

\* C5: two breakends of opposite direction, at most maxdist apart and each
\* with a proximal sub-alignment, give exactly one insertion, two-sided, of both.
C5_TwoBreakendsPaired ==
    (pair_pc = "done" /\ C5_Input) =>
        /\ Len(insertions) = 1
        /\ paired(insertions[1])
        /\ {insertions[1].be1, insertions[1].be2} = {1, 2}

\* the two breakends are exactly maxdist apart, the later one first in the list
C5_Witness ==
    /\ pair_pc = "done"
    /\ C5_Input
    /\ breakends[1].breakpos - breakends[2].breakpos = maxdist
    /\ Len(insertions) = 1

\* breakend i is more than maxdist from every breakend of the other direction
Isolated(i) ==
    \A j \in DOMAIN breakends :
        breakends[j].direction # breakends[i].direction
            => Abs(breakends[i].breakpos - breakends[j].breakpos) > maxdist

\* C6: a breakend more than maxdist from every opposite-direction breakend is
\* returned as a single-sided insertion and is in no two-sided one.
C6_IsolatedIsSingle ==
    pair_pc = "done" =>
        \A i \in DOMAIN breakends :
            Isolated(i) =>
                /\ PairedInsertionsOf(i) = {}
                /\ \E k \in DOMAIN insertions : insertions[k] = [be1 |-> i, be2 |-> 0]

\* an isolated breakend with a proximal sub-alignment, beside a breakend of
\* the other direction that has one too, returned single-sided
C6_Witness ==
    /\ pair_pc = "done"
    /\ \E i, j \in DOMAIN breakends :
          /\ Isolated(i)
          /\ breakends[j].direction # breakends[i].direction
          /\ proximal_subread(breakends[i]) # <<>>
          /\ proximal_subread(breakends[j]) # <<>>
          /\ \E k \in DOMAIN insertions : insertions[k] = [be1 |-> i, be2 |-> 0]

\* breakend i is returned as a single-sided insertion
SingleSided(i) == \E k \in DOMAIN insertions : insertions[k].be1 = i /\ ~paired(insertions[k])

\* C28: the greedy matching is maximal: no two single-sided insertions of the
\* returned list hold breakends that formed a scored candidate pair.
C28_GreedyMatchingMaximal ==
    pair_pc = "done" =>
        \A k \in DOMAIN pair_scores :
            ~(SingleSided(pair_scores[k][1]) /\ SingleSided(pair_scores[k][2]))

\* two scored pairs, one of them turned down, and its free breakend returned
\* single-sided
C28_Witness ==
    /\ pair_pc = "done"
    /\ Len(pair_scores) >= 2
    /\ \E k \in DOMAIN pair_scores :
          SingleSided(pair_scores[k][1]) \/ SingleSided(pair_scores[k][2])

(***************************************************************************)
(* build_sr_clusters: claims                                               *)
(***************************************************************************)
\* C7: every returned cluster holds reads of one chromosome, and two
\* consecutive breakpoints in a cluster are at most searchdist apart.
C7_ClusterGapsWithinThreshold ==
    cluster_pc = "done" =>
        \A k \in DOMAIN clusters :
            LET rs == clusters[k].reads
            IN  /\ \A i \in DOMAIN rs : rs[i].chrom = clusters[k].chrom
                /\ \A i \in 1..(Len(rs) - 1) : rs[i + 1].breakpos - rs[i].breakpos <= searchdist

\* C8: two adjacent returned clusters of one chromosome are more than
\* searchdist apart: the first breakpoint of the second is more than
\* searchdist after the last breakpoint of the first.
C8_AdjacentClustersApart ==
    cluster_pc = "done" =>
        \A k \in 1..(Len(clusters) - 1) :
            clusters[k].chrom = clusters[k + 1].chrom =>
                clusters[k + 1].reads[1].breakpos
                    - clusters[k].reads[Len(clusters[k].reads)].breakpos > searchdist

\* C8 as amended: two adjacent returned clusters of one chromosome are such
\* that the first breakpoint of the second is more than searchdist away from
\* the median field of the first.
C8_AdjacentClustersApartFromMedian ==
    cluster_pc = "done" =>
        \A k \in 1..(Len(clusters) - 1) :
            clusters[k].chrom = clusters[k + 1].chrom =>
                Abs(clusters[k].median - clusters[k + 1].reads[1].breakpos) > searchdist

\* two adjacent clusters of one chromosome, the first of several reads, whose
\* breakpoints are within searchdist of each other
C8_Witness ==
    /\ cluster_pc = "done"
    /\ \E k \in 1..(Len(clusters) - 1) :
          /\ clusters[k].chrom = clusters[k + 1].chrom
          /\ Len(clusters[k].reads) > 1
          /\ clusters[k + 1].reads[1].breakpos
                 - clusters[k].reads[Len(clusters[k].reads)].breakpos <= searchdist

\* the breakpoint positions of the member reads of a cluster
Breakpoints(cl) == {cl.reads[j].breakpos : j \in DOMAIN cl.reads}

\* C20: the start, end and median of every SplitCluster, after its creation
\* with a first read and after any add_splitread calls, are the smallest, the
\* largest and the middle (sorted index floor(n/2)) breakpoint position of its
\* member reads, so start <= median <= end.
C20_ClusterStatistics ==
    \A k \in DOMAIN clusters :
        LET cl == clusters[k]
        IN  /\ cl.start \in Breakpoints(cl)
            /\ cl.end \in Breakpoints(cl)
            /\ \A b \in Breakpoints(cl) : cl.start <= b /\ b <= cl.end
            /\ cl.median = cl.reads[(Len(cl.reads) \div 2) + 1].breakpos
            /\ cl.start <= cl.median /\ cl.median <= cl.end

(***************************************************************************)
(* resolve_duplicates: claims                                              *)
(***************************************************************************)
\* the input is two records of the same (chromosome, be1 position, be2 position)
TwoSameLocus ==
    /\ Len(ins_list) = 2
    /\ ins_list[1].chrom = ins_list[2].chrom
    /\ ins_list[1].be1_breakpos = ins_list[2].be1_breakpos
    /\ ins_list[1].be2_breakpos = ins_list[2].be2_breakpos

\* C9: of two records of the same (chromosome, be1 position, be2 position)
\* exactly one is retained, in whichever order they arrive.
C9_OneOfTwoRetained ==
    (dedup_pc = "done" /\ TwoSameLocus) => Cardinality(retained) = 1

\* two two-sided records of one locus, the second with more split reads: it
\* replaces the first
C9_Witness ==
    /\ dedup_pc = "done"
    /\ TwoSameLocus
    /\ ins_list[1].be1_breakpos # ins_list[1].be2_breakpos
    /\ ins_list[2].be1_sr_count + ins_list[2].be2_sr_count
           > ins_list[1].be1_sr_count + ins_list[1].be2_sr_count
    /\ retained = {2}

\* sidedness of a record, as prefer_insertion reads it
TwoSided(ins) == ins.be1_breakpos # ins.be2_breakpos

SrCount(ins) == ins.be1_sr_count + ins.be2_sr_count

\* the preference order of the documentation: sidedness first, then the
\* split-read count, then the discordant-read count
DocumentedBetter(x, y) ==
    \/ TwoSided(x) /\ ~TwoSided(y)
    \/ TwoSided(x) = TwoSided(y) /\ SrCount(x) > SrCount(y)
    \/ TwoSided(x) = TwoSided(y) /\ SrCount(x) = SrCount(y) /\ x.dr_count > y.dr_count

\* C10: of two duplicate candidates (records with the same be1 key) the one
\* retained is the better one in the strict order two-sided over one-sided,
\* then higher split-read count, then higher discordant-read count.
C10_StrictPreferenceOrder ==
    (dedup_pc = "done" /\ Len(ins_list) = 2 /\ Be1Key(ins_list[1]) = Be1Key(ins_list[2])) =>
        \A a, b \in {1, 2} :
            DocumentedBetter(ins_list[a], ins_list[b]) => retained = {a}


\* the records of the returned list
RetainedRecords == {ins_list[i] : i \in retained}

\* C11: the merge does not depend on the order of the chunk results: every
\* permutation of the input list makes resolve_duplicates retain the same records.
C11_MergeOrderIndependent ==
    dedup_pc = "done" =>
        \A other \in Permuted(ins_list) : resolve_duplicates(other) = RetainedRecords

\* C25: after resolve_duplicates no two retained records have the same
\* (chromosome, be1 position) key: a record that lost on its be1 key is not
\* retained through another key.
C25_RetainedBe1KeysDistinct ==
    dedup_pc = "done" =>
        \A a, b \in retained :
            Be1Key(ins_list[a]) = Be1Key(ins_list[b]) => a = b

(***************************************************************************)
(* Insertion.fetch_discordant_reads: claims                                *)
(***************************************************************************)
\* the reads kept for the current BAM
KeptForBam == Cardinality(bam_mapped) + Cardinality(bam_unmapped)

\* C12: when the two buckets of a BAM hold more than max_fetch reads, the
\* number of reads kept for that BAM after subsampling is exactly max_fetch.
C12_SubsampleKeepsExactlyCap ==
    (fetch_pc = "mates" /\ found[1] + found[2] > max_fetch) => KeptForBam = max_fetch

\* C26: every read of the mate-unmapped bucket whose unmapped,
\* non-secondary, non-supplementary mate is in the fetched region of the
\* same BAM has its mate attached, not only the first one.
C26_EveryUnmappedMateAttached ==
    fetch_pc \in {"merge", "done"} =>
        \A q \in bam_unmapped : q \in unmapped_region => q \in mate_read

(***************************************************************************)
(* run_chunk, tebreak: claims                                              *)
(***************************************************************************)
\* the chunks whose result tebreak has collected
Collected == {got[i] : i \in DOMAIN got}

\* C13: an error raised at any step of run_chunk makes that chunk return an
\* empty result and does not abort the run: tebreak never stops on the chunk's
\* exception, and when it merges it has collected the result of every chunk.
C13_FailedChunkDoesNotAbort ==
    /\ main_pc # "aborted"
    /\ \A c \in DOMAIN worker : worker[c].pc = "FAILED" => worker[c].result = "empty"
    /\ main_pc = "done" => Collected = RunChunks

\* a finished run in which one chunk failed and another returned insertions
C13_Witness ==
    /\ main_pc = "done"
    /\ \E c \in DOMAIN worker : worker[c].pc = "FAILED" /\ c \in Collected
    /\ \E c \in DOMAIN worker : worker[c].result = "insertions" /\ c \in Collected

\* C14: each resource is tried at most 5 times, and once all 5 attempts for a
\* resource have failed the chunk fails: no step of the pipeline runs to its end
\* after that, so the chunk is still opening resources, or about to start
\* COLLECT_SPLIT_READS, or FAILED.
C14_ExhaustedOpenFailsChunk ==
    \A c \in DOMAIN worker :
        /\ worker[c].tries <= Retries
        /\ worker[c].exhausted # {} =>
               worker[c].pc \in {"OPEN_RESOURCES", "COLLECT_SPLIT_READS", "FAILED"}

\* one step of run_chunk on chunk c follows the state machine of the pipeline
FollowsPipeline(c) ==
    LET old == worker[c]
        new == worker'[c]
    IN  IF old.pc \in {"DONE", "FAILED"} THEN new.pc = old.pc
        ELSE /\ new.pc \in {old.pc, NextStep(old.pc), "FAILED"}
             /\ new.exhausted # old.exhausted => new.pc = "FAILED"

FollowsPipelineOrReturnsEarly(c) ==
    LET old == worker[c]
        new == worker'[c]
    IN  IF old.pc \in {"DONE", "FAILED"} THEN new.pc = old.pc
        ELSE IF new.pc \in {old.pc, "FAILED"} THEN TRUE
        ELSE IF StepIndex(new.pc) = StepIndex(old.pc) + 1 THEN TRUE
        ELSE old.pc = "BUILD_BREAKENDS" /\ new.pc = "DONE" /\ new.result = "empty"

C15_TempFilesRemoved ==
    map_pc \in {"done", "raised", "nameerror"} => (~tmp_fa /\ ~tmp_sam)

\* C18: after a parse failure the SAM file holds the header and exactly the
\* well-formed records before the failure; map_breakends then returns without
\* raising, after at most as many truncations as the file had records.
C18_TruncateAndReparse ==
    /\ truncations > 0 =>
           /\ sam_header = sam_orig.header
           /\ sam_records = SubSeq(sam_orig.records, 1, GoodPrefixLen(sam_orig.records, bad))
    /\ map_pc # "nameerror"
    /\ truncations <= Len(sam_orig.records)

\* C23: when map_breakends has returned, no record of the SAM file is twice
\* in the mappings of a breakend, also when the file was truncated and
\* parsed again.
C23_MappingsWithoutDuplicates ==
    map_pc = "done" =>
        \A j, k \in DOMAIN mappings : mappings[j] = mappings[k] => j = k

(***************************************************************************)
(* filter_insertions: claims                                               *)
(***************************************************************************)
\* the candidates that no filter excludes, in input order
RECURSIVE Remaining(_)
Remaining(k) ==
    IF k = 0 THEN <<>>
    ELSE IF candidates[k].other \/ candidates[k].rgs \cap exclude_readgroup # {}
         THEN Remaining(k - 1)
         ELSE Append(Remaining(k - 1), k)

\* C16: with a read-group exclude list configured, filter_insertions ends by
\* returning, and the list it returns holds no candidate with a supporting
\* read group on the list and every other candidate that passes the other filters.
C16_ExcludedReadGroupsRejected ==
    exclude_readgroup # {} =>
        /\ filter_pc # "keyerror"
        /\ filter_pc = "done" => filtered = Remaining(Len(candidates))

(***************************************************************************)
(* SplitCluster.consensus: claims                                          *)
(***************************************************************************)
\* two fractions are the same number
SameScore(a, b) == a.num * b.den = b.num * a.den

\* C19: when consensus has gone through its extension loop, the score it
\* returns is the mean of the scores of the accepted steps, and 0.0 exactly
\* when no step was accepted, whatever happened in the later passes.
C19_ScoreIsMeanOfAccepted ==
    (cons_pc = "done" /\ uniq > 1) =>
        /\ scores # <<>> => SameScore(cons_score, Mean(scores))
        /\ scores = <<>> <=> cons_score.num = 0

(***************************************************************************)
(* postprocess_insertions: claims                                          *)
(***************************************************************************)
\* the third loop has gone over insertion k
Resolved(k) == (post_pc = "resolve" /\ post_i > k) \/ (post_pc = "done" /\ post_i > Len(post_ins))

\* C21: when the improved consensus of a breakend has no proximal mapping
\* after remapping, the insertion is back at the previous state of the
\* breakend: the consensus and the mappings from before the improvement, and
\* the improved flag false.
C21_FallbackRestoresBreakend ==
    \A k \in DOMAIN post_ins :
        (post_ins[k].be1 \in noprox /\ Resolved(k)) =>
            /\ ~post_ins[k].be1_improved_cons
            /\ heap[post_ins[k].be1].consensus = "old"
            /\ heap[post_ins[k].be1].mappings = "old"

\* C22: minia runs at most once plus 10 retries per insertion; an assembly
\* that still fails is reported, the insertion keeps its consensus, and the
\* loop goes on to the next insertion.
C22_BoundedAssemblyRetries ==
    \A k \in DOMAIN post_ins :
        /\ attempts[k] <= AsmRetries + 1
        /\ (attempts[k] > 0 /\ k \notin asm_ok) =>
               /\ k \in reported
               /\ heap[post_ins[k].be1].consensus = "old"
               /\ post_pc = "loop" => post_i > k

\* C24: postprocess_insertions goes over every insertion of its input: when
\* it has returned, minia has run for every insertion that has supporting
\* reads, whatever came before it in the list.
C24_EveryInsertionAttempted ==
    post_pc = "done" =>
        \A k \in DOMAIN post_ins : post_ins[k].outreads > 0 => attempts[k] > 0

(***************************************************************************)
(* Insertion.improve_consensus: claims                                     *)
(***************************************************************************)
\* C29: improve_consensus puts the same test to be1 and to be2: a contig
\* that is longer than the consensus, with the unaligned fraction of the
\* consensus under the threshold and the percent match over the minimum, is
\* adopted for both or for neither.
C29_SameAdoptionTest ==
    (imp_pc = "done" /\ imp_be1 = imp_be2) => be1_improved_cons = be2_improved_cons

(***************************************************************************)
(* BreakEnd.unmapped_subread: claims                                       *)
(***************************************************************************)
\* the positions of the consensus that no mapping aligns
Uncovered == {p \in 0..(Len(us_consensus) - 1) : \A m \in us_aligned : p < m[1] \/ p >= m[2]}

\* the maximal runs of uncovered positions, as (first, last)
MaximalRuns ==
    {r \in (0..(Len(us_consensus) - 1)) \X (0..(Len(us_consensus) - 1)) :
        /\ r[1] <= r[2]
        /\ \A p \in r[1]..r[2] : p \in Uncovered
        /\ r[1] - 1 \notin Uncovered
        /\ r[2] + 1 \notin Uncovered}

\* C30: unmapped_subread returns the intervals that cover exactly the
\* positions of the consensus under no sub-alignment, one interval for each
\* maximal run of such positions, each with the bases of its run.
C30_UnmappedIntervalsExact ==
    us_pc = "done" =>
        /\ {us_intervals[k] : k \in DOMAIN us_intervals} = MaximalRuns
        /\ Len(us_intervals) = Cardinality(MaximalRuns)
        /\ \A k \in DOMAIN us_intervals :
              us_subseqs[k] = Slice(us_consensus, us_intervals[k][1], us_intervals[k][2] + 1)

====
